---- MODULE Spec2Model ----
(***************************************************************************)
(* A model of go-kit.  The error framework: the process-wide code registry *)
(* (package errors, Register / MustRegister / Lookup / HTTPStatus under    *)
(* registryMu), the error chain constructors and walks (New, Wrap,         *)
(* WithMessage, WithCode, WrapCode, GetCode, IsCode, Error), and the       *)
(* startup table of package code.  Beside it the health registry of        *)
(* package health and the configuration store of package config.           *)
(***************************************************************************)
EXTENDS Integers, Sequences, FiniteSets, TLC

VARIABLES
    registry,     \* map[int]coder: a function whose DOMAIN is the set of registered codes
    registryMu,   \* sync.RWMutex: [writer : SUBSET Procs, readers : SUBSET Procs], the holders
    pc,           \* per worker: position inside the registry operation it runs
    call,         \* per worker: the operation and arguments of the call in progress
    res,          \* per worker: the locals c, ok of a reader (copied field by field)
    lastWritten,  \* history: per code, the triple of the last completed registration
    err,          \* the error value under construction (a chain of nodes, or Nil)
    ret,          \* the operation applied last to err, its arguments and its result
    frames,       \* number of return addresses runtime.Callers finds above the skip
    ip,           \* startup: index of the next Register call of code.init
    aborted,      \* startup: TRUE once a Register call of code.init has panicked
    probe,        \* startup: the last Lookup / HTTPStatus made against the table
    checkers,     \* health.Registry: the checkers registered, in order
    overall,      \* health: the last OverallStatus call, its checks and its result
    v,            \* config.Store: the atomic value, the current configuration
    subs,         \* config.Store: per key, the buffers of the subscribers' channels
    upd,          \* config: per updater, its position inside Update and the value
    got           \* config: per channel, the value its subscriber received last

vars == <<registry, registryMu, pc, call, res, lastWritten, err, ret, frames, ip, aborted, probe,
          checkers, overall, v, subs, upd, got>>

regVars == <<registry, registryMu, pc, call, res, lastWritten>>
chainVars == <<err, ret, frames>>
startVars == <<ip, aborted, probe>>
healthVars == <<checkers, overall>>
configVars == <<v, subs, upd, got>>
pkgVars == <<healthVars, configVars>>

-----------------------------------------------------------------------------
(* Bounds and input sets *)

NumProcs == 2
MaxCode == 2

None == "none"
Procs == 1..NumProcs
Codes == 0..MaxCode

\* (status, message) pairs handed to Register / MustRegister
RegArgs == { [httpStatus |-> 400, message |-> "Bad request"],
             [httpStatus |-> 503, message |-> "Unavailable"] }

-----------------------------------------------------------------------------
(* Code registry: package errors *)

StatusInternalServerError == 500

\* the zero value of struct coder, what a map read yields for a missing key
zeroCoder == [code |-> 0, httpStatus |-> 0, message |-> ""]

unknownCoder == [code |-> 1, httpStatus |-> StatusInternalServerError,
                 message |-> "Internal server error"]

coder(code, httpStatus, message) ==
    [code |-> code, httpStatus |-> httpStatus, message |-> message]

\* mutant: the duplicate check never finds the code
ExistsNever(reg, code) == FALSE

\* _, exists := registry[code]
Exists(reg, code) == code \in DOMAIN reg

\* c, ok := registry[code]
MapGet(reg, code) ==
    IF code \in DOMAIN reg THEN [c |-> reg[code], ok |-> TRUE]
    ELSE [c |-> zeroCoder, ok |-> FALSE]

\* registry[code] = coder{...}: the struct is stored word by word.  First the
\* key with the code and httpStatus words (the message word keeps what the
\* slot held), then the message word.
StoreHead(reg, code, httpStatus) ==
    [k \in DOMAIN reg \cup {code} |->
        IF k = code
        THEN coder(code, httpStatus, MapGet(reg, code).c.message)
        ELSE reg[k]]

StoreMessage(reg, code, message) ==
    [k \in DOMAIN reg |-> IF k = code THEN [reg[k] EXCEPT !.message = message] ELSE reg[k]]

MapPut(reg, c) == StoreMessage(StoreHead(reg, c.code, c.httpStatus), c.code, c.message)

\* mutant: the zero check is missing
ReservedCodeNever(code) == FALSE

\* if code == 0 { panic("error code 0 is reserved") }
ReservedCode(code) == code = 0

\* mutant: a writer does not wait for another writer
LockFreeOfReaders(mu) == mu.readers = {}

\* registryMu.Lock() returns once no reader and no writer holds the mutex
LockFree(mu) == mu.writer = {} /\ mu.readers = {}

\* mutant: a reader does not wait for the writer
RLockFreeAlways(mu) == TRUE

\* registryMu.RLock() returns once no writer holds the mutex
RLockFree(mu) == mu.writer = {}

\* The whole of Register on a registry nobody else touches.
RegisterSeq(reg, code, httpStatus, message) ==
    IF ReservedCode(code) THEN [registry |-> reg, panic |-> TRUE]
    ELSE IF Exists(reg, code) THEN [registry |-> reg, panic |-> TRUE]
    ELSE [registry |-> MapPut(reg, coder(code, httpStatus, message)), panic |-> FALSE]

\* The whole of Lookup.
Lookup(reg, code) == MapGet(reg, code)

\* mutant: the ok test is missing, the zero value's status is returned
StatusOfUnchecked(g) == g.c.httpStatus

\* if c, ok := registry[code]; ok { return c.httpStatus }; return 500
StatusOf(g) == IF g.ok THEN g.c.httpStatus ELSE StatusInternalServerError

\* The whole of HTTPStatus.
HTTPStatus(reg, code) == StatusOf(MapGet(reg, code))

\* mutant: MustRegister makes Register's duplicate check too
DuplicateCheckedAlways(op) == TRUE

\* Register tests the map for the code before it stores; MustRegister does not.
DuplicateChecked(op) == op = "Register"

Writers == {"Register", "MustRegister"}
Readers == {"Lookup", "HTTPStatus"}

noCall == [op |-> None, code |-> 0, httpStatus |-> 0, message |-> ""]
noRes == [c |-> zeroCoder, ok |-> FALSE, status |-> 0]

InWrite(p) == pc[p] \in {"check", "store", "storeMsg", "unlock", "panicUnlock"}
InRead(p) == pc[p] \in {"loadMsg", "ret"}

\* A worker calls Register or MustRegister: the zero check, which panics before
\* the mutex is touched, then registryMu.Lock().  Until it holds the mutex the
\* call has touched nothing shared, so the call and the acquisition are one step.
CallWrite(p, op, code, a) ==
    /\ pc[p] = "idle"
    /\ ReservedCode(code) \/ LockFree(registryMu)
    /\ call' = [call EXCEPT ![p] =
                  IF ReservedCode(code) THEN [noCall EXCEPT !.op = op]
                  ELSE [op |-> op, code |-> code,
                        httpStatus |-> a.httpStatus, message |-> a.message]]
    /\ registryMu' = IF ReservedCode(code) THEN registryMu
                     ELSE [registryMu EXCEPT !.writer = @ \cup {p}]
    /\ pc' = [pc EXCEPT ![p] = IF ReservedCode(code) THEN "panicked"
                               ELSE IF DuplicateChecked(op) THEN "check" ELSE "store"]
    /\ UNCHANGED <<registry, res, lastWritten>>

\* The duplicate check; a panic runs the deferred Unlock.
Check(p) ==
    /\ pc[p] = "check"
    /\ pc' = [pc EXCEPT ![p] = IF Exists(registry, call[p].code) THEN "panicUnlock" ELSE "store"]
    /\ UNCHANGED <<registry, registryMu, call, res, lastWritten>>

Store(p) ==
    /\ pc[p] = "store"
    /\ registry' = StoreHead(registry, call[p].code, call[p].httpStatus)
    /\ pc' = [pc EXCEPT ![p] = "storeMsg"]
    /\ UNCHANGED <<registryMu, call, res, lastWritten>>

StoreMsg(p) ==
    /\ pc[p] = "storeMsg"
    /\ registry' = StoreMessage(registry, call[p].code, call[p].message)
    /\ pc' = [pc EXCEPT ![p] = "unlock"]
    /\ UNCHANGED <<registryMu, call, res, lastWritten>>

\* defer registryMu.Unlock(), on the normal return and on the panic
Unlock(p) ==
    /\ pc[p] \in {"unlock", "panicUnlock"}
    /\ registryMu' = [registryMu EXCEPT !.writer = @ \ {p}]
    /\ pc' = [pc EXCEPT ![p] = IF pc[p] = "unlock" THEN "idle" ELSE "panicked"]
    /\ lastWritten' = IF pc[p] = "unlock"
                      THEN [lastWritten EXCEPT ![call[p].code] =
                              coder(call[p].code, call[p].httpStatus, call[p].message)]
                      ELSE lastWritten
    /\ call' = [call EXCEPT ![p] = IF pc[p] = "unlock" THEN noCall
                                   ELSE [noCall EXCEPT !.op = call[p].op, !.code = call[p].code]]
    /\ UNCHANGED <<registry, res>>

\* The panic reaches the caller, which recovers it and goes on.
Recover(p) ==
    /\ pc[p] = "panicked"
    /\ pc' = [pc EXCEPT ![p] = "idle"]
    /\ call' = [call EXCEPT ![p] = noCall]
    /\ UNCHANGED <<registry, registryMu, res, lastWritten>>

\* A worker calls Lookup or HTTPStatus: registryMu.RLock(), then
\* c, ok := registry[code] copies the entry word by word: here the key and the
\* code and httpStatus words.  HTTPStatus uses no other word of the copy.
CallRead(p, op, code) ==
    /\ pc[p] = "idle"
    /\ RLockFree(registryMu)
    /\ call' = [call EXCEPT ![p] = [noCall EXCEPT !.op = op, !.code = code]]
    /\ registryMu' = [registryMu EXCEPT !.readers = @ \cup {p}]
    /\ LET g == MapGet(registry, code)
           h == [g EXCEPT !.c.message = ""]
       IN res' = [res EXCEPT ![p] = [c |-> h.c, ok |-> h.ok,
                     status |-> IF op = "HTTPStatus" THEN StatusOf(h) ELSE 0]]
    /\ pc' = [pc EXCEPT ![p] = IF op = "HTTPStatus" THEN "ret" ELSE "loadMsg"]
    /\ UNCHANGED <<registry, lastWritten>>

\* Lookup: the message word of the copy; the return value is ready before the
\* deferred RUnlock runs.
LoadMsg(p) ==
    /\ pc[p] = "loadMsg"
    /\ LET m == IF res[p].ok THEN MapGet(registry, call[p].code).c.message ELSE ""
       IN res' = [res EXCEPT ![p].c.message = m]
    /\ pc' = [pc EXCEPT ![p] = "ret"]
    /\ UNCHANGED <<registry, registryMu, call, lastWritten>>

\* defer registryMu.RUnlock(), and the return to the caller
RUnlock(p) ==
    /\ pc[p] = "ret"
    /\ registryMu' = [registryMu EXCEPT !.readers = @ \ {p}]
    /\ pc' = [pc EXCEPT ![p] = "idle"]
    /\ call' = [call EXCEPT ![p] = noCall]
    /\ res' = [res EXCEPT ![p] = noRes]
    /\ UNCHANGED <<registry, lastWritten>>

RegInit ==
    /\ registry = <<>>
    /\ registryMu = [writer |-> {}, readers |-> {}]
    /\ pc = [p \in Procs |-> "idle"]
    /\ call = [p \in Procs |-> noCall]
    /\ res = [p \in Procs |-> noRes]
    /\ lastWritten = [c \in Codes |-> zeroCoder]

ChainIdle == err = [kind |-> "nil"] /\ ret = [op |-> "none"] /\ frames = 0
StartIdle == ip = 0 /\ aborted = FALSE /\ probe = [op |-> "none"]

\* subscription keys: Update notifies the channels under "*" only
Keys == {"*", "db"}

\* the configuration NewStore is given
Initial == "c0"

idleUpdate == [pc |-> "idle", c |-> Initial, i |-> 0]

\* NewRegistry(): no checker
NewRegistry == checkers = <<>> /\ overall = [op |-> None]

\* NewStore(initial): the value stored, an empty map of subscribers
NewStore ==
    /\ v = Initial
    /\ subs = [k \in Keys |-> <<>>]
    /\ upd = [u \in Procs |-> idleUpdate]
    /\ got = [k \in Keys |-> <<>>]

PkgIdle == NewRegistry /\ NewStore

Init == RegInit /\ ChainIdle /\ StartIdle /\ PkgIdle

Next ==
    \/ \E p \in Procs, op \in Writers, code \in Codes, a \in RegArgs :
          CallWrite(p, op, code, a) /\ UNCHANGED <<chainVars, startVars, pkgVars>>
    \/ \E p \in Procs : Check(p) /\ UNCHANGED <<chainVars, startVars, pkgVars>>
    \/ \E p \in Procs : Store(p) /\ UNCHANGED <<chainVars, startVars, pkgVars>>
    \/ \E p \in Procs : StoreMsg(p) /\ UNCHANGED <<chainVars, startVars, pkgVars>>
    \/ \E p \in Procs : Unlock(p) /\ UNCHANGED <<chainVars, startVars, pkgVars>>
    \/ \E p \in Procs : Recover(p) /\ UNCHANGED <<chainVars, startVars, pkgVars>>
    \/ \E p \in Procs, op \in Readers, code \in Codes :
          CallRead(p, op, code) /\ UNCHANGED <<chainVars, startVars, pkgVars>>
    \/ \E p \in Procs : LoadMsg(p) /\ UNCHANGED <<chainVars, startVars, pkgVars>>
    \/ \E p \in Procs : RUnlock(p) /\ UNCHANGED <<chainVars, startVars, pkgVars>>

Spec == Init /\ [][Next]_vars

-----------------------------------------------------------------------------
(* Error chain: package errors *)

MaxDepth == 3

Msgs == {"a", "b"}
\* (format, args) pairs handed to the formatting constructors
Formats == { [format |-> <<"a">>, args |-> <<>>],
             [format |-> <<"%s">>, args |-> <<"b">>] }
\* codes a caller asks IsCode about: those a node can carry and one more
QueryCodes == 0..(MaxCode + 1)

depth == 32
\* goroutine stacks shallower and deeper than the capture buffer
FrameCounts == {2, depth + 1}

Nil == [kind |-> "nil"]

Min(a, b) == IF a < b THEN a ELSE b

callersUncapped(n) == [i \in 1..n |-> n - i + 1]

\* callers: runtime.Callers fills pcs with the innermost n return addresses,
\* at most len(pcs) of them; frame k is the k-th frame counted from main.
callers(n) == [i \in 1..Min(n, depth) |-> n - i + 1]

\* what fmt prints for a verb that has no operand left
Missing(verb) ==
    IF verb = "%s" THEN "%!s(MISSING)"
    ELSE IF verb = "%d" THEN "%!d(MISSING)"
    ELSE "%!v(MISSING)"

\* fmt.Sprintf over a format cut into literal pieces and verbs
RECURSIVE Sprintf(_, _)
Sprintf(format, args) ==
    IF format = <<>> THEN ""
    ELSE IF Head(format) \in {"%s", "%d", "%v"}
         THEN IF args = <<>>
              THEN Missing(Head(format)) \o Sprintf(Tail(format), args)
              ELSE Head(args) \o Sprintf(Tail(format), Tail(args))
         ELSE Head(format) \o Sprintf(Tail(format), args)

New(message, n) == [kind |-> "fundamental", msg |-> message, stack |-> callers(n)]

Errorf(format, args, n) ==
    [kind |-> "fundamental", msg |-> Sprintf(format, args), stack |-> callers(n)]

\* mutant: the nil check is missing
WrapNoNilCheck(e, message, n) ==
    [kind |-> "withMessage", cause |-> e, msg |-> message, stack |-> callers(n),
     hasCode |-> FALSE, code |-> 0]

Wrap(e, message, n) ==
    IF e = Nil THEN Nil
    ELSE [kind |-> "withMessage", cause |-> e, msg |-> message, stack |-> callers(n),
          hasCode |-> FALSE, code |-> 0]

Wrapf(e, format, args, n) ==
    IF e = Nil THEN Nil
    ELSE [kind |-> "withMessage", cause |-> e, msg |-> Sprintf(format, args),
          stack |-> callers(n), hasCode |-> FALSE, code |-> 0]

WithMessage(e, message) ==
    IF e = Nil THEN Nil
    ELSE [kind |-> "withMessage", cause |-> e, msg |-> message, stack |-> <<>>,
          hasCode |-> FALSE, code |-> 0]

WithMessagef(e, format, args) ==
    IF e = Nil THEN Nil
    ELSE [kind |-> "withMessage", cause |-> e, msg |-> Sprintf(format, args),
          stack |-> <<>>, hasCode |-> FALSE, code |-> 0]

WithCode(code, format, args, n) ==
    [kind |-> "codeError", code |-> code, message |-> Sprintf(format, args),
     cause |-> Nil, stack |-> callers(n)]

WrapCode(e, code, format, args, n) ==
    IF e = Nil THEN Nil
    ELSE [kind |-> "codeError", code |-> code, message |-> Sprintf(format, args),
          cause |-> e, stack |-> callers(n)]

\* errors.Unwrap: the result of e's Unwrap() error method, nil when it has none
Unwrap(e) ==
    IF e.kind \in {"withMessage", "codeError"} THEN e.cause ELSE Nil

\* mutant: the separator is put after the cause
JoinCauseReversed(own, cause, causeText) ==
    IF cause # Nil THEN causeText \o ": " \o own ELSE own

\* if e.cause != nil { return e.message + ": " + e.cause.Error() }; return e.message
JoinCause(own, cause, causeText) ==
    IF cause # Nil THEN own \o ": " \o causeText ELSE own

\* the Error() method of the three node types, of an error made outside
\* the package (errorString: the text it was made with) and of a value of
\* Join (the texts of the joined errors, one per line)
RECURSIVE Error(_)
RECURSIVE ErrorLines(_)
ErrorLines(errs) ==
    IF Len(errs) = 1 THEN Error(Head(errs))
    ELSE Error(Head(errs)) \o "\n" \o ErrorLines(Tail(errs))

Error(e) ==
    IF e.kind \in {"fundamental", "errorString"} THEN e.msg
    ELSE IF e.kind = "joinError" THEN ErrorLines(e.errs)
    ELSE IF e.kind = "withMessage"
         THEN JoinCause(e.msg, e.cause, IF e.cause # Nil THEN Error(e.cause) ELSE "")
         ELSE JoinCause(e.message, e.cause, IF e.cause # Nil THEN Error(e.cause) ELSE "")

\* a node's type has the method Code() int
IsCodedError(e) == e.kind = "codeError"

\* mutant: the walk prefers the match nearest the root
RECURSIVE AsCodedErrorDeepest(_)
AsCodedErrorDeepest(e) ==
    IF e = Nil THEN Nil
    ELSE IF AsCodedErrorDeepest(Unwrap(e)) # Nil THEN AsCodedErrorDeepest(Unwrap(e))
    ELSE IF IsCodedError(e) THEN e
    ELSE Nil

\* errors.As(err, &coded): the first node, from the outermost on, whose type
\* is assignable to CodedError; Nil when As returns false.  Below a value of
\* Join, whose method is Unwrap() []error, As tries the joined errors in
\* order, each to its end.
RECURSIVE AsCodedError(_)
RECURSIVE AsCodedErrorIn(_)
AsCodedErrorIn(errs) ==
    IF errs = <<>> THEN Nil
    ELSE IF AsCodedError(Head(errs)) # Nil THEN AsCodedError(Head(errs))
    ELSE AsCodedErrorIn(Tail(errs))

AsCodedError(e) ==
    IF e = Nil THEN Nil
    ELSE IF IsCodedError(e) THEN e
    ELSE IF e.kind = "joinError" THEN AsCodedErrorIn(e.errs)
    ELSE AsCodedError(Unwrap(e))

GetCode(e) ==
    IF AsCodedError(e) # Nil THEN AsCodedError(e).code ELSE 0

\* mutant: only the outermost node is tested
IsCodeShallow(e, code) ==
    e # Nil /\ IsCodedError(e) /\ e.code = code

RECURSIVE IsCode(_, _)
IsCode(e, code) ==
    IF e = Nil THEN FALSE
    ELSE IF IsCodedError(e) /\ e.code = code THEN TRUE
    ELSE IsCode(Unwrap(e), code)

\* number of nodes of a chain
RECURSIVE Depth(_)
Depth(e) == IF e = Nil THEN 0 ELSE 1 + Depth(Unwrap(e))

WrapOps == {"Wrap", "Wrapf", "WithMessage", "WithMessagef", "WrapCode"}

Built(op, arg, e) ==
    /\ err' = e
    /\ ret' = [op |-> op, arg |-> arg]
    /\ UNCHANGED frames

Asked(r) == ret' = r /\ UNCHANGED <<err, frames>>

NewStep(m) == Built("New", Nil, New(m, frames))
ErrorfStep(f) == Built("Errorf", Nil, Errorf(f.format, f.args, frames))
WithCodeStep(c, f) == Built("WithCode", Nil, WithCode(c, f.format, f.args, frames))

WrapStep(m) ==
    Depth(err) < MaxDepth /\ Built("Wrap", err, Wrap(err, m, frames))
WrapfStep(f) ==
    Depth(err) < MaxDepth /\ Built("Wrapf", err, Wrapf(err, f.format, f.args, frames))
WithMessageStep(m) ==
    Depth(err) < MaxDepth /\ Built("WithMessage", err, WithMessage(err, m))
WithMessagefStep(f) ==
    Depth(err) < MaxDepth /\ Built("WithMessagef", err, WithMessagef(err, f.format, f.args))
WrapCodeStep(c, f) ==
    Depth(err) < MaxDepth /\ Built("WrapCode", err, WrapCode(err, c, f.format, f.args, frames))

\* the caller drops the error: the next wrap is handed nil
DropStep == ret.op # "Drop" /\ Built("Drop", Nil, Nil)

GetCodeStep == Asked([op |-> "GetCode", val |-> GetCode(err)])
IsCodeStep(c) == Asked([op |-> "IsCode", code |-> c, val |-> IsCode(err, c)])
\* Error() is a method: it is called on non-nil errors only
ErrorStep == err # Nil /\ Asked([op |-> "Error", val |-> Error(err)])

ChainInit ==
    /\ err = Nil
    /\ ret = [op |-> None]
    /\ frames \in FrameCounts

ChainNext ==
    \/ \E m \in Msgs : NewStep(m) /\ UNCHANGED <<regVars, startVars, pkgVars>>
    \/ \E f \in Formats : ErrorfStep(f) /\ UNCHANGED <<regVars, startVars, pkgVars>>
    \/ \E c \in Codes, f \in Formats : WithCodeStep(c, f) /\ UNCHANGED <<regVars, startVars, pkgVars>>
    \/ \E m \in Msgs : WrapStep(m) /\ UNCHANGED <<regVars, startVars, pkgVars>>
    \/ \E f \in Formats : WrapfStep(f) /\ UNCHANGED <<regVars, startVars, pkgVars>>
    \/ \E m \in Msgs : WithMessageStep(m) /\ UNCHANGED <<regVars, startVars, pkgVars>>
    \/ \E f \in Formats : WithMessagefStep(f) /\ UNCHANGED <<regVars, startVars, pkgVars>>
    \/ \E c \in Codes, f \in Formats : WrapCodeStep(c, f) /\ UNCHANGED <<regVars, startVars, pkgVars>>
    \/ DropStep /\ UNCHANGED <<regVars, startVars, pkgVars>>
    \/ GetCodeStep /\ UNCHANGED <<regVars, startVars, pkgVars>>
    \/ \E c \in QueryCodes : IsCodeStep(c) /\ UNCHANGED <<regVars, startVars, pkgVars>>
    \/ ErrorStep /\ UNCHANGED <<regVars, startVars, pkgVars>>

InitChain == RegInit /\ ChainInit /\ StartIdle /\ PkgIdle

SpecChain == InitChain /\ [][ChainNext]_vars

-----------------------------------------------------------------------------
(* Startup table: package code *)

\* Basic errors
ErrSuccess == 100001
ErrUnknown == 100002
ErrBind == 100003
ErrValidation == 100004
ErrTokenInvalid == 100005

\* Database/Infrastructure errors
ErrDatabase == 100101
ErrRedis == 100102
ErrKafka == 100103
ErrExternalService == 100104

\* mutant: the alias is given the value of a basic code
ErrBadRequestClash == ErrValidation

\* HTTP status code related errors
ErrBadRequest == 100400
ErrUnauthorized == 100401
ErrForbidden == 100403
ErrNotFound == 100404
ErrInternalServer == 100500

\* Authentication/Authorization errors
ErrEncrypt == 100201
ErrSignatureInvalid == 100202
ErrExpired == 100203
ErrInvalidAuthHeader == 100204
ErrMissingHeader == 100205
ErrPasswordIncorrect == 100206
ErrPermissionDenied == 100207
ErrAccountLocked == 100208
ErrAccountDisabled == 100209
ErrTooManyAttempts == 100210

\* Encoding/Decoding errors
ErrEncodingFailed == 100301
ErrDecodingFailed == 100302
ErrInvalidJSON == 100303
ErrEncodingJSON == 100304
ErrDecodingJSON == 100305
ErrInvalidYaml == 100306
ErrEncodingYaml == 100307
ErrDecodingYaml == 100308

\* the Register calls of init(), in order
initTable == <<
    [code |-> ErrSuccess, httpStatus |-> 200, message |-> "OK"],
    [code |-> ErrUnknown, httpStatus |-> 500, message |-> "Internal server error"],
    [code |-> ErrBind, httpStatus |-> 400, message |-> "Error binding request"],
    [code |-> ErrValidation, httpStatus |-> 400, message |-> "Validation failed"],
    [code |-> ErrTokenInvalid, httpStatus |-> 401, message |-> "Token invalid"],
    [code |-> ErrDatabase, httpStatus |-> 500, message |-> "Database error"],
    [code |-> ErrRedis, httpStatus |-> 500, message |-> "Redis error"],
    [code |-> ErrKafka, httpStatus |-> 500, message |-> "Kafka error"],
    [code |-> ErrExternalService, httpStatus |-> 500, message |-> "External service error"],
    [code |-> ErrBadRequest, httpStatus |-> 400, message |-> "Bad request"],
    [code |-> ErrUnauthorized, httpStatus |-> 401, message |-> "Unauthorized"],
    [code |-> ErrForbidden, httpStatus |-> 403, message |-> "Forbidden"],
    [code |-> ErrNotFound, httpStatus |-> 404, message |-> "Not found"],
    [code |-> ErrInternalServer, httpStatus |-> 500, message |-> "Internal server error"],
    [code |-> ErrEncrypt, httpStatus |-> 401, message |-> "Encryption failed"],
    [code |-> ErrSignatureInvalid, httpStatus |-> 401, message |-> "Signature is invalid"],
    [code |-> ErrExpired, httpStatus |-> 401, message |-> "Token expired"],
    [code |-> ErrInvalidAuthHeader, httpStatus |-> 401, message |-> "Invalid authorization header"],
    [code |-> ErrMissingHeader, httpStatus |-> 401, message |-> "Authorization header missing"],
    [code |-> ErrPasswordIncorrect, httpStatus |-> 401, message |-> "Password incorrect"],
    [code |-> ErrPermissionDenied, httpStatus |-> 403, message |-> "Permission denied"],
    [code |-> ErrAccountLocked, httpStatus |-> 403, message |-> "Account locked"],
    [code |-> ErrAccountDisabled, httpStatus |-> 403, message |-> "Account disabled"],
    [code |-> ErrTooManyAttempts, httpStatus |-> 403, message |-> "Too many attempts"],
    [code |-> ErrEncodingFailed, httpStatus |-> 500, message |-> "Encoding failed"],
    [code |-> ErrDecodingFailed, httpStatus |-> 500, message |-> "Decoding failed"],
    [code |-> ErrInvalidJSON, httpStatus |-> 500, message |-> "Invalid JSON"],
    [code |-> ErrEncodingJSON, httpStatus |-> 500, message |-> "JSON encoding failed"],
    [code |-> ErrDecodingJSON, httpStatus |-> 500, message |-> "JSON decoding failed"],
    [code |-> ErrInvalidYaml, httpStatus |-> 500, message |-> "Invalid YAML"],
    [code |-> ErrEncodingYaml, httpStatus |-> 500, message |-> "YAML encoding failed"],
    [code |-> ErrDecodingYaml, httpStatus |-> 500, message |-> "YAML decoding failed"]
>>

TableCodes == {initTable[i].code : i \in 1..Len(initTable)}

\* codes the program asks about once init() has run: the table's and others
ProbeCodes == TableCodes \cup {0, 1, 42, ErrTokenInvalid + 1, ErrNotFound + 1}

\* init(): the next Register call; a panic in init() ends the program
InitRegister ==
    /\ ~aborted
    /\ ip < Len(initTable)
    /\ LET t == initTable[ip + 1]
           r == RegisterSeq(registry, t.code, t.httpStatus, t.message)
       IN /\ registry' = r.registry
          /\ aborted' = r.panic
          /\ ip' = IF r.panic THEN ip ELSE ip + 1
    /\ UNCHANGED <<registryMu, pc, call, res, lastWritten, probe>>

\* after init(), the program resolves a code
ProbeLookup(code) ==
    /\ ~aborted
    /\ ip = Len(initTable)
    /\ probe' = [op |-> "Lookup", code |-> code,
                 c |-> Lookup(registry, code).c, ok |-> Lookup(registry, code).ok]
    /\ UNCHANGED <<regVars, ip, aborted>>

ProbeHTTPStatus(code) ==
    /\ ~aborted
    /\ ip = Len(initTable)
    /\ probe' = [op |-> "HTTPStatus", code |-> code, status |-> HTTPStatus(registry, code)]
    /\ UNCHANGED <<regVars, ip, aborted>>

StartNext ==
    \/ InitRegister /\ UNCHANGED <<chainVars, pkgVars>>
    \/ \E code \in ProbeCodes : ProbeLookup(code) /\ UNCHANGED <<chainVars, pkgVars>>
    \/ \E code \in ProbeCodes : ProbeHTTPStatus(code) /\ UNCHANGED <<chainVars, pkgVars>>

SpecStartup == Init /\ [][StartNext]_vars

-----------------------------------------------------------------------------
(* Convenience layer: package code *)

\* number of nodes of the chains handed to the convenience layer
MaxWraps == 2

\* texts of the errors a collaborator hands up
LowMsgs == {"", "io"}
\* codes the application puts on nodes itself: the reserved one, an
\* unregistered one
NodeCodes == {0, 42}

\* an error of another package (errors.New of the standard library): a text,
\* no Unwrap, no Code, no stack
errorString(text) == [kind |-> "errorString", msg |-> text]

\* the registry once init() has returned
RECURSIVE RegisterAll(_, _)
RegisterAll(reg, table) ==
    IF table = <<>> THEN reg
    ELSE RegisterAll(RegisterSeq(reg, Head(table).code, Head(table).httpStatus,
                                 Head(table).message).registry,
                     Tail(table))

StartupRegistry == RegisterAll(<<>>, initTable)

\* n is the number of frames of the caller; each call adds one
NewError(code, message, n) == WithCode(code, <<"%s">>, <<message>>, n + 1)

NewErrorf(code, format, args, n) == WithCode(code, format, args, n + 1)

wrapIfError(e, code, format, args, n) ==
    IF e = Nil THEN Nil
    ELSE WrapCode(e, code, format, args, n + 1)

\* mutant: a nil error stays nil
wrapOrNewNil(e, code, message, n) ==
    IF e = Nil THEN Nil
    ELSE WrapCode(e, code, <<"%s">>, <<message>>, n + 1)

wrapOrNew(e, code, message, n) ==
    IF e = Nil THEN NewError(code, message, n + 1)
    ELSE WrapCode(e, code, <<"%s">>, <<message>>, n + 1)

\* mutant: the operation is left out of the message
WrapDatabaseErrorBare(e, operation, n) ==
    wrapIfError(e, ErrDatabase, <<"database failed">>, <<>>, n + 1)

WrapDatabaseError(e, operation, n) ==
    wrapIfError(e, ErrDatabase, <<"database ", "%s", " failed">>, <<operation>>, n + 1)

WrapRedisError(e, operation, n) ==
    wrapIfError(e, ErrRedis, <<"redis ", "%s", " failed">>, <<operation>>, n + 1)

WrapKafkaError(e, operation, n) ==
    wrapIfError(e, ErrKafka, <<"kafka ", "%s", " failed">>, <<operation>>, n + 1)

WrapExternalError(e, service, operation, n) ==
    wrapIfError(e, ErrExternalService, <<"external service ", "%s", " ", "%s", " failed">>,
                <<service, operation>>, n + 1)

WrapBadRequestError(e, message, n) == wrapOrNew(e, ErrBadRequest, message, n + 1)
WrapUnauthorizedError(e, message, n) == wrapOrNew(e, ErrUnauthorized, message, n + 1)
WrapForbiddenError(e, message, n) == wrapOrNew(e, ErrForbidden, message, n + 1)
WrapNotFoundError(e, message, n) == wrapOrNew(e, ErrNotFound, message, n + 1)
WrapInternalServerError(e, message, n) == wrapOrNew(e, ErrInternalServer, message, n + 1)
WrapBindError(e, message, n) == wrapOrNew(e, ErrBind, message, n + 1)
WrapValidationError(e, message, n) == wrapOrNew(e, ErrValidation, message, n + 1)

NewValidationError(field, message, n) ==
    NewErrorf(ErrValidation, <<"validation failed for field ", "%s", ": ", "%s">>,
              <<field, message>>, n + 1)

\* runtime.CallersFrames: the function, file and line of frame k.  Frame 1,
\* the outermost of a goroutine, belongs to the runtime.
Function(k) == IF k = 1 THEN "runtime.goexit" ELSE "main.f" \o ToString(k)
File(k) == IF k = 1 THEN "asm.s" ELSE "main.go"
Line(k) == k

\* strings.Contains(frame.Function, "runtime.")
IsRuntimeFrame(k) == k = 1

\* formatStack: one entry per frame that is not the runtime's
RECURSIVE formatStack(_)
formatStack(stack) ==
    IF stack = <<>> THEN ""
    ELSE (IF IsRuntimeFrame(Head(stack)) THEN ""
          ELSE "\n    " \o Function(Head(stack)) \o "\n        " \o File(Head(stack))
               \o ":" \o ToString(Line(Head(stack))))
         \o formatStack(Tail(stack))

\* mutant: the colon between message and cause is missing
FormatCauseBare(e, causeDetail) == " " \o causeDetail

\* fmt.Fprintf(s, ": %+v", e.cause)
FormatCause(e, causeDetail) == ": " \o causeDetail

\* fmt.Sprintf("%+v", err): the Format method of the node types with the
\* plus flag; an error with no Format method prints its Error()
RECURSIVE FormatPlusV(_)
FormatPlusV(e) ==
    IF e.kind = "fundamental" THEN e.msg \o formatStack(e.stack)
    ELSE IF e.kind = "withMessage" THEN Error(e) \o formatStack(e.stack)
    ELSE IF e.kind = "codeError"
         THEN "[" \o ToString(e.code) \o "] " \o e.message
              \o (IF e.cause # Nil THEN FormatCause(e, FormatPlusV(e.cause)) ELSE "")
              \o formatStack(e.stack)
    ELSE Error(e)

\* mutant: the upper bound is missing
IsClientErrorOpen(reg, errCode) == HTTPStatus(reg, errCode) >= 400

IsClientError(reg, errCode) ==
    HTTPStatus(reg, errCode) >= 400 /\ HTTPStatus(reg, errCode) < 500

IsServerError(reg, errCode) == HTTPStatus(reg, errCode) >= 500

InternalError == 0
BusinessError == 1

CategoryDatabase == "database"
CategoryRedis == "redis"
CategoryKafka == "kafka"
CategoryExternal == "external"
CategorySystem == "system"
CategoryAuth == "auth"
CategoryPermission == "permission"
CategoryValidation == "validation"
CategoryBusiness == "business"

\* mutant: client errors are internal too
classifyErrorTypeWide(reg, errCode) ==
    IF HTTPStatus(reg, errCode) >= 400 THEN InternalError ELSE BusinessError

classifyErrorType(reg, errCode) ==
    IF HTTPStatus(reg, errCode) >= 500 THEN InternalError ELSE BusinessError

\* mutant: the switch is missing, every code takes the default
classifyErrorCategoryDefault(errCode) == CategoryBusiness

classifyErrorCategory(errCode) ==
    IF errCode = ErrDatabase THEN CategoryDatabase
    ELSE IF errCode = ErrRedis THEN CategoryRedis
    ELSE IF errCode = ErrKafka THEN CategoryKafka
    ELSE IF errCode = ErrExternalService THEN CategoryExternal
    ELSE IF errCode \in {ErrValidation, ErrBind, ErrBadRequest} THEN CategoryValidation
    ELSE IF errCode \in {ErrUnauthorized, ErrTokenInvalid, ErrExpired, ErrInvalidAuthHeader,
                         ErrMissingHeader, ErrSignatureInvalid, ErrPasswordIncorrect}
         THEN CategoryAuth
    ELSE IF errCode \in {ErrForbidden, ErrPermissionDenied, ErrAccountLocked,
                         ErrAccountDisabled, ErrTooManyAttempts}
         THEN CategoryPermission
    ELSE IF errCode >= 100300 /\ errCode < 100400 THEN CategorySystem
    ELSE CategoryBusiness

\* ErrorInfo{}
zeroErrorInfo ==
    [Type |-> InternalError, Category |-> "", Code |-> 0, Message |-> "", Details |-> ""]

\* mutant: the details are kept for business errors
HideDetailsNever(info) == info

\* if info.Type == BusinessError { info.Details = "" }
HideDetails(info) ==
    IF info.Type = BusinessError THEN [info EXCEPT !.Details = ""] ELSE info

NewErrorInfo(reg, e) ==
    IF e = Nil THEN zeroErrorInfo
    ELSE HideDetails([Type |-> classifyErrorType(reg, GetCode(e)),
                      Category |-> classifyErrorCategory(GetCode(e)),
                      Code |-> GetCode(e),
                      Message |-> Error(e),
                      Details |-> FormatPlusV(e)])

-----------------------------------------------------------------------------
(* Response boundary: packages errors, resp and middleware *)

\* mutant: a registered code is answered with the fixed coder too
ParseCoderFixed(reg, e) ==
    IF e = Nil THEN Nil ELSE unknownCoder

ParseCoder(reg, e) ==
    IF e = Nil THEN Nil
    ELSE IF GetCode(e) = 0 THEN unknownCoder
    ELSE IF Lookup(reg, GetCode(e)).ok THEN Lookup(reg, GetCode(e)).c
    ELSE unknownCoder

\* mutant: the code of the chain is passed on as it is
EffectiveCodeRaw(e) == GetCode(e)

\* errorCode := errors.GetCode(err); if errorCode == 0 { errorCode = code.ErrInternalServer }
EffectiveCode(e) == IF GetCode(e) = 0 THEN ErrInternalServer ELSE GetCode(e)

\* mutant: the chain's own text is sent whatever the registry holds
ResponseMessageOwn(reg, errorCode, e) == Error(e)

\* message := err.Error(); if coder, ok := errors.Lookup(errorCode); ok { message = coder.Message() }
ResponseMessage(reg, errorCode, e) ==
    IF Lookup(reg, errorCode).ok THEN Lookup(reg, errorCode).c.message ELSE Error(e)

\* what APIError hands to c.JSON; err.Error() on a nil error panics
APIError(reg, e) ==
    IF e = Nil THEN [panic |-> TRUE]
    ELSE [panic |-> FALSE,
          httpStatus |-> HTTPStatus(reg, EffectiveCode(e)),
          Code |-> EffectiveCode(e),
          Msg |-> ResponseMessage(reg, EffectiveCode(e), e)]

StatusBadRequest == 400
StatusUnauthorized == 401
StatusForbidden == 403
StatusNotFound == 404

\* errors of the web framework (the four statuses the switch names and one
\* it does not) and of the validator, as ErrorHandler meets them
HTTPErrors ==
    {[kind |-> "HTTPError", Code |-> s, Message |-> "denied"] :
        s \in {StatusBadRequest, StatusUnauthorized, StatusForbidden, StatusNotFound,
               502}}
ValidationErrors == {[kind |-> "ValidationError", Field |-> "name", Message |-> "empty"]}

handleHTTPError(reg, e, n) ==
    LET c == IF e.Code = StatusBadRequest THEN ErrBadRequest
             ELSE IF e.Code = StatusUnauthorized THEN ErrUnauthorized
             ELSE IF e.Code = StatusForbidden THEN ErrForbidden
             ELSE IF e.Code = StatusNotFound THEN ErrNotFound
             ELSE ErrInternalServer
    IN APIError(reg, NewErrorf(c, <<"%s">>, <<e.Message>>, n + 1))

handleValidationError(reg, e, n) ==
    APIError(reg, NewValidationError(e.Field, e.Message, n + 1))

\* the error whose text is logged is nil: err.Error() panics
handleGenericError(reg, e, n) ==
    IF GetCode(e) # 0 THEN APIError(reg, e)
    ELSE IF e = Nil THEN [panic |-> TRUE]
    ELSE APIError(reg, WrapInternalServerError(e, "internal server error", n + 1))

\* switch e := err.(type)
ErrorHandler(reg, e, n) ==
    IF e.kind = "HTTPError" THEN handleHTTPError(reg, e, n + 1)
    ELSE IF e.kind = "ValidationError" THEN handleValidationError(reg, e, n + 1)
    ELSE handleGenericError(reg, e, n + 1)

-----------------------------------------------------------------------------
(* The program after init(): classification of codes *)

\* the state init() leaves: the startup table registered, nobody in the registry
Started ==
    /\ registry = StartupRegistry
    /\ registryMu = [writer |-> {}, readers |-> {}]
    /\ pc = [p \in Procs |-> "idle"]
    /\ call = [p \in Procs |-> noCall]
    /\ res = [p \in Procs |-> noRes]
    /\ lastWritten = [c \in Codes |-> zeroCoder]
    /\ ip = Len(initTable)
    /\ aborted = FALSE

\* codes and statuses the application registers for itself
AppCodes == {7, 404}
AppStatuses == {302, 404, 502}

\* codes asked about: the table's, the application's, unregistered ones inside
\* and at the edges of the bands
ClassCodes ==
    TableCodes \cup AppCodes \cup
    {0, 1, 42, 500, ErrTokenInvalid + 1, ErrEncrypt - 1, ErrTooManyAttempts + 1,
     ErrEncodingFailed - 2, ErrEncodingFailed - 1, ErrDecodingYaml + 1,
     ErrBadRequest - 1, ErrNotFound + 1}

\* the application registers a code of its own; the panic of a second
\* registration reaches the caller, which recovers it and goes on
AppRegister(code, httpStatus) ==
    LET r == RegisterSeq(registry, code, httpStatus, "app")
    IN /\ registry' = r.registry
       /\ probe' = [op |-> "Register", code |-> code, panic |-> r.panic]
       /\ UNCHANGED <<registryMu, pc, call, res, lastWritten, ip, aborted>>

Probed(r) == probe' = r /\ UNCHANGED <<regVars, ip, aborted>>

IsClientErrorStep(code) ==
    Probed([op |-> "IsClientError", code |-> code, val |-> IsClientError(registry, code)])

IsServerErrorStep(code) ==
    Probed([op |-> "IsServerError", code |-> code, val |-> IsServerError(registry, code)])

classifyErrorTypeStep(code) ==
    Probed([op |-> "classifyErrorType", code |-> code,
            val |-> classifyErrorType(registry, code)])

classifyErrorCategoryStep(code) ==
    Probed([op |-> "classifyErrorCategory", code |-> code,
            val |-> classifyErrorCategory(code)])

InitClassify == Started /\ ChainIdle /\ probe = [op |-> "none"] /\ PkgIdle

ClassifyNext ==
    \/ \E code \in AppCodes, st \in AppStatuses :
          AppRegister(code, st) /\ UNCHANGED <<chainVars, pkgVars>>
    \/ \E code \in ClassCodes : IsClientErrorStep(code) /\ UNCHANGED <<chainVars, pkgVars>>
    \/ \E code \in ClassCodes : IsServerErrorStep(code) /\ UNCHANGED <<chainVars, pkgVars>>
    \/ \E code \in ClassCodes : classifyErrorTypeStep(code) /\ UNCHANGED <<chainVars, pkgVars>>
    \/ \E code \in ClassCodes : classifyErrorCategoryStep(code) /\ UNCHANGED <<chainVars, pkgVars>>

SpecClassify == InitClassify /\ [][ClassifyNext]_vars

-----------------------------------------------------------------------------
(* The program after init(): errors on their way to the response *)

InfraWrappers ==
    {"WrapDatabaseError", "WrapRedisError", "WrapKafkaError", "WrapExternalError"}
MessageWrappers ==
    {"WrapBadRequestError", "WrapUnauthorizedError", "WrapForbiddenError",
     "WrapNotFoundError", "WrapInternalServerError", "WrapBindError",
     "WrapValidationError"}
CategoryWrappers == InfraWrappers \cup MessageWrappers

\* the wrapper named w called with err, (service,) operation or message
CategoryWrap(w, e, service, a, n) ==
    IF w = "WrapDatabaseError" THEN WrapDatabaseError(e, a, n)
    ELSE IF w = "WrapRedisError" THEN WrapRedisError(e, a, n)
    ELSE IF w = "WrapKafkaError" THEN WrapKafkaError(e, a, n)
    ELSE IF w = "WrapExternalError" THEN WrapExternalError(e, service, a, n)
    ELSE IF w = "WrapBadRequestError" THEN WrapBadRequestError(e, a, n)
    ELSE IF w = "WrapUnauthorizedError" THEN WrapUnauthorizedError(e, a, n)
    ELSE IF w = "WrapForbiddenError" THEN WrapForbiddenError(e, a, n)
    ELSE IF w = "WrapNotFoundError" THEN WrapNotFoundError(e, a, n)
    ELSE IF w = "WrapInternalServerError" THEN WrapInternalServerError(e, a, n)
    ELSE IF w = "WrapBindError" THEN WrapBindError(e, a, n)
    ELSE WrapValidationError(e, a, n)

\* operation names and messages handed to the wrappers
WrapperArgs == {"get"}
Services == {"pay"}
\* (format, args) handed to WithCode and WrapCode by the application
AppFormats == {[format |-> <<"%s">>, args |-> <<"top">>]}
Notes == {"ctx"}

\* a collaborator returns an error of its own
LowStep(m) == Built("errors.New", Nil, errorString(m))

CategoryWrapStep(w, service, a) ==
    /\ Depth(err) < MaxWraps
    /\ err' = CategoryWrap(w, err, service, a, frames)
    /\ ret' = [op |-> w, arg |-> err, service |-> service, a |-> a]
    /\ UNCHANGED frames

NewErrorInfoStep == Asked([op |-> "NewErrorInfo", info |-> NewErrorInfo(registry, err)])

ParseCoderStep == Asked([op |-> "ParseCoder", c |-> ParseCoder(registry, err)])

\* a handler answers with the error it holds
APIErrorStep == Asked([op |-> "APIError", resp |-> APIError(registry, err)])

\* the web framework hands ErrorHandler the handler's error or one of its own
ErrorHandlerStep(e) ==
    Asked([op |-> "ErrorHandler", e |-> e, resp |-> ErrorHandler(registry, e, frames)])

InitBoundary ==
    /\ Started
    /\ probe = [op |-> "none"]
    /\ err = Nil
    /\ ret = [op |-> None]
    /\ frames = 2
    /\ PkgIdle

BoundaryNext ==
    \/ \E m \in LowMsgs : LowStep(m) /\ UNCHANGED <<regVars, startVars, pkgVars>>
    \/ \E m \in LowMsgs : NewStep(m) /\ UNCHANGED <<regVars, startVars, pkgVars>>
    \/ \E c \in NodeCodes, f \in AppFormats :
          WithCodeStep(c, f) /\ UNCHANGED <<regVars, startVars, pkgVars>>
    \/ \E m \in Notes :
          Depth(err) < MaxWraps /\ WrapStep(m) /\ UNCHANGED <<regVars, startVars, pkgVars>>
    \/ \E m \in Notes :
          Depth(err) < MaxWraps /\ WithMessageStep(m) /\ UNCHANGED <<regVars, startVars, pkgVars>>
    \/ \E c \in NodeCodes, f \in AppFormats :
          Depth(err) < MaxWraps /\ WrapCodeStep(c, f) /\ UNCHANGED <<regVars, startVars, pkgVars>>
    \/ \E w \in CategoryWrappers, service \in Services, a \in WrapperArgs :
          CategoryWrapStep(w, service, a) /\ UNCHANGED <<regVars, startVars, pkgVars>>
    \/ DropStep /\ UNCHANGED <<regVars, startVars, pkgVars>>
    \/ NewErrorInfoStep /\ UNCHANGED <<regVars, startVars, pkgVars>>
    \/ ParseCoderStep /\ UNCHANGED <<regVars, startVars, pkgVars>>
    \/ APIErrorStep /\ UNCHANGED <<regVars, startVars, pkgVars>>
    \/ \E e \in {err} \cup HTTPErrors \cup ValidationErrors :
          ErrorHandlerStep(e) /\ UNCHANGED <<regVars, startVars, pkgVars>>

SpecBoundary == InitBoundary /\ [][BoundaryNext]_vars

-----------------------------------------------------------------------------
(* Component health: package health *)

MaxCheckers == 3

StatusHealthy == "healthy"
StatusUnhealthy == "unhealthy"
StatusDegraded == "degraded"

\* a checker of the application: its name and the status its Check reports
Checkers ==
    [name : {"db"}, status : {StatusHealthy, StatusUnhealthy, StatusDegraded}]

\* CheckAll: the result of every checker, in the order of registration
CheckAll(cs) == [i \in 1..Len(cs) |-> [Name |-> cs[i].name, Status |-> cs[i].status]]

\* the loop of OverallStatus over the checks
RECURSIVE OverallOf(_)
OverallOf(checks) ==
    IF checks = <<>> THEN StatusHealthy
    ELSE IF Head(checks).Status = StatusUnhealthy THEN StatusUnhealthy
    ELSE IF Head(checks).Status = StatusDegraded THEN StatusDegraded
    ELSE OverallOf(Tail(checks))

OverallStatus(cs) == OverallOf(CheckAll(cs))

\* Registry.Register: append under the write lock
HealthRegister(checker) ==
    /\ Len(checkers) < MaxCheckers
    /\ checkers' = Append(checkers, checker)
    /\ UNCHANGED overall

\* Registry.OverallStatus: CheckAll under the read lock, then the loop
OverallStatusStep ==
    /\ overall' = [op |-> "OverallStatus", checks |-> CheckAll(checkers),
                   val |-> OverallStatus(checkers)]
    /\ UNCHANGED checkers

InitHealth == Init

HealthNext ==
    \/ \E checker \in Checkers :
          HealthRegister(checker) /\ UNCHANGED <<regVars, chainVars, startVars, configVars>>
    \/ OverallStatusStep /\ UNCHANGED <<regVars, chainVars, startVars, configVars>>

SpecHealth == InitHealth /\ [][HealthNext]_vars

-----------------------------------------------------------------------------
(* Configuration store: package config *)

MaxSubs == 2

\* the configurations the updaters store
Configs == {"c1", "c2"}

\* Current: the load of the atomic value
Current == v

\* select { case ch <- c: default: } on a channel of capacity 1
TrySend(buf, c) == IF buf = <<>> THEN <<c>> ELSE buf

\* Subscribe: a new channel of capacity 1 appended under the write lock,
\* which waits for the updaters that hold the read lock.  The subscriber
\* remembers whether it came before every Update.
Subscribe(key) ==
    /\ Len(subs[key]) < MaxSubs
    /\ \A u \in Procs : upd[u].pc # "notify"
    /\ subs' = [subs EXCEPT ![key] = Append(@, <<>>)]
    /\ got' = [got EXCEPT ![key] = Append(@, [last |-> None, early |-> v = Initial])]
    /\ UNCHANGED <<v, upd>>

\* Update: s.v.Store(c), then s.mu.RLock(); a Subscribe is one step, so the
\* read lock is there to take
UpdateStore(u, c) ==
    /\ upd[u].pc = "idle"
    /\ v' = c
    /\ upd' = [upd EXCEPT ![u] = [pc |-> "notify", c |-> c, i |-> 1]]
    /\ UNCHANGED <<subs, got>>

\* one pass of the loop over s.subs["*"]
UpdateSend(u) ==
    /\ upd[u].pc = "notify"
    /\ upd[u].i <= Len(subs["*"])
    /\ subs' = [subs EXCEPT !["*"][upd[u].i] = TrySend(@, upd[u].c)]
    /\ upd' = [upd EXCEPT ![u].i = @ + 1]
    /\ UNCHANGED <<v, got>>

\* the end of the loop: the deferred RUnlock and the return
UpdateReturn(u) ==
    /\ upd[u].pc = "notify"
    /\ upd[u].i > Len(subs["*"])
    /\ upd' = [upd EXCEPT ![u] = idleUpdate]
    /\ UNCHANGED <<v, subs, got>>

\* a subscriber receives from its channel
Receive(key, k) ==
    /\ k \in 1..Len(subs[key])
    /\ subs[key][k] # <<>>
    /\ got' = [got EXCEPT ![key][k].last = Head(subs[key][k])]
    /\ subs' = [subs EXCEPT ![key][k] = <<>>]
    /\ UNCHANGED <<v, upd>>

InitConfig == Init

ConfigNext ==
    \/ \E key \in Keys :
          Subscribe(key) /\ UNCHANGED <<regVars, chainVars, startVars, healthVars>>
    \/ \E u \in Procs, c \in Configs :
          UpdateStore(u, c) /\ UNCHANGED <<regVars, chainVars, startVars, healthVars>>
    \/ \E u \in Procs :
          UpdateSend(u) /\ UNCHANGED <<regVars, chainVars, startVars, healthVars>>
    \/ \E u \in Procs :
          UpdateReturn(u) /\ UNCHANGED <<regVars, chainVars, startVars, healthVars>>
    \/ \E key \in Keys, k \in 1..MaxSubs :
          Receive(key, k) /\ UNCHANGED <<regVars, chainVars, startVars, healthVars>>

SpecConfig == InitConfig /\ [][ConfigNext]_vars

-----------------------------------------------------------------------------
(* A response made while the registry is written *)

\* MustRegister, from Lock to the deferred Unlock: the panic for code 0 comes
\* before the lock is taken and leaves the registry as it is
MustRegisterStep(code, a) ==
    /\ registry' = IF ReservedCode(code) THEN registry
                   ELSE MapPut(registry, coder(code, a.httpStatus, a.message))
    /\ probe' = [op |-> "MustRegister", code |-> code, panic |-> ReservedCode(code)]
    /\ UNCHANGED <<registryMu, pc, call, res, lastWritten, ip, aborted>>

\* APIError up to the return of HTTPStatus: the code of the chain and the
\* status read under the first RLock
APIErrorStatus ==
    /\ err # Nil
    /\ ret.op # "APIError.HTTPStatus"
    /\ Asked([op |-> "APIError.HTTPStatus",
              errorCode |-> EffectiveCode(err),
              httpStatus |-> HTTPStatus(registry, EffectiveCode(err))])

\* the rest of APIError: the message read by Lookup under the second RLock,
\* and the response
APIErrorRespond ==
    /\ ret.op = "APIError.HTTPStatus"
    /\ Asked([op |-> "APIError",
              resp |-> [panic |-> FALSE,
                        httpStatus |-> ret.httpStatus,
                        Code |-> ret.errorCode,
                        Msg |-> ResponseMessage(registry, ret.errorCode, err)]])

InitRace == InitBoundary

\* the handler's error is built before APIError is called with it; the
\* registrations of other goroutines come at any time
RaceNext ==
    \/ \E c \in AppCodes, f \in AppFormats :
          /\ ret.op # "APIError.HTTPStatus"
          /\ WithCodeStep(c, f)
          /\ UNCHANGED <<regVars, startVars, pkgVars>>
    \/ \E c \in AppCodes, s \in AppStatuses :
          AppRegister(c, s) /\ UNCHANGED <<chainVars, pkgVars>>
    \/ \E c \in AppCodes \cup {0}, a \in RegArgs :
          MustRegisterStep(c, a) /\ UNCHANGED <<chainVars, pkgVars>>
    \/ APIErrorStatus /\ UNCHANGED <<regVars, startVars, pkgVars>>
    \/ APIErrorRespond /\ UNCHANGED <<regVars, startVars, pkgVars>>

SpecRace == InitRace /\ [][RaceNext]_vars

-----------------------------------------------------------------------------
(* Joined errors: the re-exported Join *)

\* errors.Join: the nil errors are dropped; nil when none is left
NonNil(errs) == SelectSeq(errs, LAMBDA e : e # Nil)

Join(errs) ==
    IF NonNil(errs) = <<>> THEN Nil
    ELSE [kind |-> "joinError", errs |-> NonNil(errs)]

JoinCodes == {0, 7}

\* the errors a caller joins with the one in hand
JoinOperands(n) ==
    {Nil, New("ctx", n)} \cup {WithCode(c, <<"%s">>, <<"top">>, n) : c \in JoinCodes}

\* the nodes of an error value, those below a Join included
RECURSIVE Size(_)
RECURSIVE SizeIn(_)
SizeIn(errs) == IF errs = <<>> THEN 0 ELSE Size(Head(errs)) + SizeIn(Tail(errs))

Size(e) ==
    IF e = Nil THEN 0
    ELSE IF e.kind = "joinError" THEN 1 + SizeIn(e.errs)
    ELSE 1 + Size(Unwrap(e))

JoinStep(x, first) ==
    /\ Size(err) < MaxWraps
    /\ Built("Join", err, IF first THEN Join(<<x, err>>) ELSE Join(<<err, x>>))

InitJoin == RegInit /\ ChainInit /\ StartIdle /\ PkgIdle

JoinNext ==
    \/ \E m \in Notes : NewStep(m) /\ UNCHANGED <<regVars, startVars, pkgVars>>
    \/ \E c \in NodeCodes, f \in AppFormats :
          WithCodeStep(c, f) /\ UNCHANGED <<regVars, startVars, pkgVars>>
    \/ \E m \in Notes :
          Size(err) < MaxDepth /\ WrapStep(m) /\ UNCHANGED <<regVars, startVars, pkgVars>>
    \/ \E c \in NodeCodes, f \in AppFormats :
          Size(err) < MaxDepth /\ WrapCodeStep(c, f) /\ UNCHANGED <<regVars, startVars, pkgVars>>
    \/ \E x \in JoinOperands(frames), first \in BOOLEAN :
          JoinStep(x, first) /\ UNCHANGED <<regVars, startVars, pkgVars>>
    \/ DropStep /\ UNCHANGED <<regVars, startVars, pkgVars>>
    \/ GetCodeStep /\ UNCHANGED <<regVars, startVars, pkgVars>>
    \/ \E c \in NodeCodes \cup JoinCodes :
          IsCodeStep(c) /\ UNCHANGED <<regVars, startVars, pkgVars>>
    \/ ErrorStep /\ UNCHANGED <<regVars, startVars, pkgVars>>

SpecJoin == InitJoin /\ [][JoinNext]_vars

-----------------------------------------------------------------------------
(* Stack snapshots and chain walks: package errors *)

\* the first node, from the outermost on, whose type has the method
\* StackTrace() []uintptr: all three node types of the package have it
RECURSIVE AsStackTracer(_)
AsStackTracer(e) ==
    IF e = Nil THEN Nil
    ELSE IF e.kind \in {"fundamental", "withMessage", "codeError"} THEN e
    ELSE AsStackTracer(Unwrap(e))

\* if As(err, &tracer) { return tracer.StackTrace() }; return nil
GetStackTrace(e) ==
    IF AsStackTracer(e) # Nil THEN AsStackTracer(e).stack ELSE <<>>

\* the calls of Error() methods that one call of Error() makes: a node calls
\* the method of its cause once
RECURSIVE ErrorCalls(_)
ErrorCalls(e) ==
    IF e.kind \in {"withMessage", "codeError"} /\ e.cause # Nil
    THEN 1 + ErrorCalls(e.cause)
    ELSE 1

\* the nodes As(err, &coded) tests in GetCode
RECURSIVE GetCodeVisits(_)
GetCodeVisits(e) ==
    IF e = Nil THEN 0
    ELSE IF IsCodedError(e) THEN 1
    ELSE 1 + GetCodeVisits(Unwrap(e))

\* the passes of the loop of IsCode
RECURSIVE IsCodeVisits(_, _)
IsCodeVisits(e, code) ==
    IF e = Nil THEN 0
    ELSE IF IsCodedError(e) /\ e.code = code THEN 1
    ELSE 1 + IsCodeVisits(Unwrap(e), code)

\* mutant: one Unwrap instead of the loop
CauseLoopOnce(e, visited) ==
    IF e = Nil THEN [node |-> Nil, visited |-> visited]
    ELSE IF Unwrap(e) = Nil THEN [node |-> e, visited |-> visited + 1]
    ELSE [node |-> Unwrap(e), visited |-> visited + 2]

\* the loop of Cause, counting the nodes it has been at
RECURSIVE CauseLoop(_, _)
CauseLoop(e, visited) ==
    IF e = Nil THEN [node |-> Nil, visited |-> visited]
    ELSE IF Unwrap(e) = Nil THEN [node |-> e, visited |-> visited + 1]
    ELSE CauseLoop(Unwrap(e), visited + 1)

Cause(e) == CauseLoop(e, 0).node

\* the goroutine calls a function, or returns from one, between two
\* constructions: the next snapshot is taken one frame further in or out
Descend ==
    /\ frames \in FrameCounts
    /\ frames' = frames + 1
    /\ ret' = [op |-> "call"]
    /\ UNCHANGED err

Ascend ==
    /\ frames \notin FrameCounts
    /\ frames' = frames - 1
    /\ ret' = [op |-> "return"]
    /\ UNCHANGED err

FormatStep == err # Nil /\ Asked([op |-> "Format", val |-> FormatPlusV(err)])

GetStackTraceStep == Asked([op |-> "GetStackTrace", val |-> GetStackTrace(err)])

CauseStep ==
    Asked([op |-> "Cause", val |-> Cause(err), visited |-> CauseLoop(err, 0).visited])

InitStack == RegInit /\ ChainInit /\ StartIdle /\ PkgIdle

\* the nodes with a snapshot are built on chains of fewer than MaxWraps nodes,
\* the annotations without one on chains of fewer than MaxDepth nodes
StackNext ==
    \/ Descend /\ UNCHANGED <<regVars, startVars, pkgVars>>
    \/ Ascend /\ UNCHANGED <<regVars, startVars, pkgVars>>
    \/ \E m \in LowMsgs : LowStep(m) /\ UNCHANGED <<regVars, startVars, pkgVars>>
    \/ \E m \in Notes : NewStep(m) /\ UNCHANGED <<regVars, startVars, pkgVars>>
    \/ \E f \in AppFormats : ErrorfStep(f) /\ UNCHANGED <<regVars, startVars, pkgVars>>
    \/ \E f \in AppFormats : WithCodeStep(42, f) /\ UNCHANGED <<regVars, startVars, pkgVars>>
    \/ \E m \in Notes :
          Depth(err) < MaxWraps /\ WrapStep(m) /\ UNCHANGED <<regVars, startVars, pkgVars>>
    \/ \E f \in AppFormats :
          Depth(err) < MaxWraps /\ WrapfStep(f) /\ UNCHANGED <<regVars, startVars, pkgVars>>
    \/ \E m \in Notes : WithMessageStep(m) /\ UNCHANGED <<regVars, startVars, pkgVars>>
    \/ \E f \in AppFormats : WithMessagefStep(f) /\ UNCHANGED <<regVars, startVars, pkgVars>>
    \/ \E f \in AppFormats :
          Depth(err) < MaxWraps /\ WrapCodeStep(42, f) /\ UNCHANGED <<regVars, startVars, pkgVars>>
    \/ DropStep /\ UNCHANGED <<regVars, startVars, pkgVars>>
    \/ FormatStep /\ UNCHANGED <<regVars, startVars, pkgVars>>
    \/ GetStackTraceStep /\ UNCHANGED <<regVars, startVars, pkgVars>>
    \/ CauseStep /\ UNCHANGED <<regVars, startVars, pkgVars>>
    \/ ErrorStep /\ UNCHANGED <<regVars, startVars, pkgVars>>
    \/ GetCodeStep /\ UNCHANGED <<regVars, startVars, pkgVars>>
    \/ IsCodeStep(42) /\ UNCHANGED <<regVars, startVars, pkgVars>>

SpecStack == InitStack /\ [][StackNext]_vars

-----------------------------------------------------------------------------
(* Claims about the error chain, under SpecChain *)

\* the nodes of a chain, outermost first
RECURSIVE Nodes(_)
Nodes(e) == IF e = Nil THEN <<>> ELSE <<e>> \o Nodes(Unwrap(e))

OwnMessage(node) == IF node.kind = "codeError" THEN node.message ELSE node.msg

\* the strings of a sequence joined by sep
RECURSIVE Joined(_, _)
Joined(strs, sep) ==
    IF Len(strs) = 0 THEN ""
    ELSE IF Len(strs) = 1 THEN strs[1]
    ELSE strs[1] \o sep \o Joined(Tail(strs), sep)

OwnMessages(e) == [i \in 1..Len(Nodes(e)) |-> OwnMessage(Nodes(e)[i])]

\* the codes of the coded nodes of a chain, outermost first
CodesOf(e) ==
    LET coded == SelectSeq(Nodes(e), LAMBDA nd : nd.kind = "codeError")
    IN [i \in 1..Len(coded) |-> coded[i].code]

\* C1: Wrap, Wrapf, WithMessage, WithMessagef and WrapCode return nil when
\* handed nil, whatever the message, format and code; handed a non-nil error
\* they return a non-nil node whose cause is exactly that error.
TheoremC1 ==
    ret.op \in WrapOps =>
        /\ ret.arg = Nil => err = Nil
        /\ ret.arg # Nil =>
              /\ err # Nil
              /\ err.cause = ret.arg
              /\ Unwrap(err) = ret.arg
              /\ Depth(err) = Depth(ret.arg) + 1

\* WrapCode was handed nil and returned nil.
WitnessC1 == ret.op = "WrapCode" /\ ret.arg = Nil /\ err = Nil

\* C2: Error() of a node is its own message when it has no cause and its own
\* message, ": " and the cause's Error() otherwise: the node messages joined by
\* ": " from the outermost node to the root.
TheoremC2 ==
    ret.op = "Error" =>
        /\ ret.val = Joined(OwnMessages(err), ": ")
        /\ err.kind = "fundamental" => ret.val = err.msg
        /\ Unwrap(err) = Nil => ret.val = OwnMessage(err)
        /\ Unwrap(err) # Nil => ret.val = OwnMessage(err) \o ": " \o Error(Unwrap(err))

\* A three-node chain of mixed kinds is rendered.
WitnessC2 ==
    /\ ret.op = "Error" /\ ret.val = "b: a: b"
    /\ err.kind = "withMessage" /\ err.cause.kind = "codeError"
    /\ err.cause.cause.kind = "fundamental"

\* C3: GetCode is the code of the outermost coded node, whatever codes deeper
\* nodes carry, and 0 when no node carries a code.  The registry plays no part:
\* it is empty in every state of this specification.
TheoremC3 ==
    ret.op = "GetCode" =>
        /\ ret.val = IF CodesOf(err) = <<>> THEN 0 ELSE CodesOf(err)[1]
        /\ registry = <<>>

\* Two coded nodes with different codes under an uncoded outermost node.
WitnessC3 ==
    /\ ret.op = "GetCode" /\ ret.val = 2
    /\ err.kind = "withMessage" /\ CodesOf(err) = <<2, 1>>

\* C4: IsCode(chain, c) is true exactly when some node of the chain, at any
\* depth, carries code c; IsCode(nil, c) is false.
TheoremC4 ==
    ret.op = "IsCode" =>
        ret.val = (\E i \in 1..Len(CodesOf(err)) : CodesOf(err)[i] = ret.code)

\* c1 = WithCode(1, "a"), c2 = WrapCode(c1, 2, "b"): IsCode(c2, 1) is true.
WitnessC4 ==
    /\ ret = [op |-> "IsCode", code |-> 1, val |-> TRUE]
    /\ err.kind = "codeError" /\ err.code = 2 /\ err.message = "b"
    /\ err.cause.kind = "codeError" /\ err.cause.code = 1 /\ err.cause.message = "a"
    /\ err.cause.cause = Nil

-----------------------------------------------------------------------------
(* Claims about the code registry, under Spec *)

Registered(c) == lastWritten[c] # zeroCoder
Args(p) == coder(call[p].code, call[p].httpStatus, call[p].message)

\* The registry is what the completed registrations have made it.
AsLeft(reg) ==
    /\ DOMAIN reg = {c \in Codes : Registered(c)}
    /\ \A c \in DOMAIN reg : reg[c] = lastWritten[c]

\* C5: Register panics when code == 0 or when the code is already registered,
\* and only then; a panicking call leaves the registry exactly as the completed
\* registrations made it (the existing entry keeps its status and message); a
\* call that does not panic adds the entry (code, status, message).
C5State ==
    \A p \in Procs : call[p].op = "Register" =>
        /\ pc[p] = "panicked" => ReservedCode(call[p].code) \/ Registered(call[p].code)
        /\ pc[p] = "panicUnlock" => Registered(call[p].code) /\ AsLeft(registry)
        /\ pc[p] \in {"check", "store", "storeMsg", "unlock"} => call[p].code # 0
        /\ pc[p] = "store" => ~Registered(call[p].code) /\ AsLeft(registry)
        /\ pc[p] = "unlock" =>
              /\ call[p].code \in DOMAIN registry
              /\ registry[call[p].code] = Args(p)
              /\ \A c \in Codes \ {call[p].code} :
                    IF Registered(c) THEN c \in DOMAIN registry /\ registry[c] = lastWritten[c]
                    ELSE c \notin DOMAIN registry

C5Step ==
    \A p \in Procs :
        (call'[p].op = "Register" /\ pc'[p] # pc[p] /\ pc'[p] \in {"panicked", "panicUnlock"})
            => registry' = registry

TheoremC5 == []C5State /\ [][C5Step]_vars

\* A Register of an already registered code, with other values, has panicked.
WitnessC5 ==
    \E p \in Procs :
        /\ call[p].op = "Register" /\ pc[p] = "panicUnlock"
        /\ registry[call[p].code] # Args(p)

\* C6: MustRegister on an existing code does not panic and replaces the entry,
\* so that Lookup(code) gives the new status and message; it changes no other
\* entry; and it still panics when code == 0.
C6State ==
    \A p \in Procs : call[p].op = "MustRegister" =>
        /\ pc[p] # "panicUnlock"
        /\ pc[p] = "panicked" <=> call[p].code = 0
        /\ pc[p] = "unlock" =>
              /\ Lookup(registry, call[p].code) = [c |-> Args(p), ok |-> TRUE]
              /\ HTTPStatus(registry, call[p].code) = call[p].httpStatus
              /\ \A c \in Codes \ {call[p].code} :
                    IF Registered(c) THEN c \in DOMAIN registry /\ registry[c] = lastWritten[c]
                    ELSE c \notin DOMAIN registry

C6Step ==
    \A p \in Procs : \A c \in Codes :
        (call[p].op = "MustRegister" /\ pc'[p] # pc[p] /\ c # call'[p].code)
            => MapGet(registry', c) = MapGet(registry, c)

TheoremC6 == []C6State /\ [][C6Step]_vars

\* MustRegister has replaced an existing entry by other values, next to another entry.
WitnessC6 ==
    \E p \in Procs :
        /\ call[p].op = "MustRegister" /\ pc[p] = "unlock"
        /\ Registered(call[p].code) /\ lastWritten[call[p].code] # Args(p)
        /\ registry[call[p].code] = Args(p)
        /\ \E c \in Codes \ {call[p].code} : Registered(c)

\* C7: Lookup of a code never registered returns found = false and HTTPStatus
\* returns 500; for a registered code Lookup returns found = true with the
\* triple last written and HTTPStatus its status; neither panics, neither
\* modifies the registry.
C7State ==
    \A p \in Procs :
        /\ (call[p].op = "Lookup" /\ pc[p] = "ret") =>
              /\ res[p].ok = Registered(call[p].code)
              /\ res[p].ok => res[p].c = lastWritten[call[p].code]
        /\ (call[p].op = "HTTPStatus" /\ pc[p] = "ret") =>
              res[p].status = IF Registered(call[p].code)
                              THEN lastWritten[call[p].code].httpStatus
                              ELSE 500
        /\ call[p].op \in Readers => pc[p] \notin {"panicked", "panicUnlock"}

C7Step ==
    \A p \in Procs :
        ((call[p].op \in Readers \/ call'[p].op \in Readers) /\ pc'[p] # pc[p])
            => registry' = registry

TheoremC7 == []C7State /\ [][C7Step]_vars

\* One worker returns from Lookup of a code registered twice, another from
\* HTTPStatus of a code never registered.
WitnessC7 ==
    \E p, q \in Procs :
        /\ call[p].op = "Lookup" /\ pc[p] = "ret" /\ res[p].ok
        /\ res[p].c.httpStatus = 503
        /\ call[q].op = "HTTPStatus" /\ pc[q] = "ret"
        /\ ~Registered(call[q].code) /\ res[q].status = 500

\* C8: a writer is never inside the registry together with a reader or another
\* writer, and what Lookup returns is a complete entry: the status and the
\* message of one registration, never the status of one and the message of
\* another.
TheoremC8 ==
    /\ \A p, q \in Procs : (p # q /\ InWrite(p)) => ~InWrite(q) /\ ~InRead(q)
    /\ \A p \in Procs : (call[p].op = "Lookup" /\ pc[p] = "ret" /\ res[p].ok) =>
          \E a \in RegArgs : res[p].c = coder(call[p].code, a.httpStatus, a.message)

\* Two readers overlap, one of them returning an entry that was overwritten.
WitnessC8 ==
    \E p, q \in Procs :
        /\ p # q /\ InRead(p) /\ InRead(q)
        /\ call[p].op = "Lookup" /\ pc[p] = "ret" /\ res[p].ok
        /\ call[q].code = call[p].code

\* C9: the registry never holds key 0, and the coder stored under key c has
\* code c (a map holds one value per key), whatever calls succeeded or panicked.
TheoremC9 ==
    /\ 0 \notin DOMAIN registry
    /\ \A c \in DOMAIN registry : registry[c].code = c
    /\ DOMAIN registry \subseteq Codes

\* Two codes are registered and a Register of code 0 has just panicked.
WitnessC9 ==
    /\ Cardinality(DOMAIN registry) >= 2
    /\ \E p \in Procs : pc[p] = "panicked" /\ call[p].code = 0

-----------------------------------------------------------------------------
(* Claims about the startup table, under SpecStartup *)

\* C10: the codes of the initialization table are pairwise distinct and not 0,
\* so init() on an empty registry runs to its end without a panic, and then
\* every code of the table resolves through Lookup to the status and message
\* the table gives it.
TheoremC10 ==
    /\ \A i, j \in 1..Len(initTable) : i # j => initTable[i].code # initTable[j].code
    /\ \A i \in 1..Len(initTable) : initTable[i].code # 0
    /\ ~aborted
    /\ DOMAIN registry = {initTable[i].code : i \in 1..ip}
    /\ \A i \in 1..ip :
          /\ registry[initTable[i].code].httpStatus = initTable[i].httpStatus
          /\ registry[initTable[i].code].message = initTable[i].message
    /\ (probe.op = "Lookup" /\ probe.code \in TableCodes) =>
          /\ probe.ok
          /\ \E i \in 1..Len(initTable) :
                probe.c = coder(probe.code, initTable[i].httpStatus, initTable[i].message)
                /\ initTable[i].code = probe.code

\* init() has run to its end and Lookup(ErrDatabase) gives (500, "Database error").
WitnessC10 ==
    /\ ip = Len(initTable) /\ Len(initTable) = 32
    /\ probe = [op |-> "Lookup", code |-> 100101,
                c |-> coder(100101, 500, "Database error"), ok |-> TRUE]

-----------------------------------------------------------------------------
(* Claims about the convenience layer and the response boundary, under
   SpecBoundary *)

\* the code a category wrapper puts on the node it makes
WrapperCode(w) ==
    IF w = "WrapDatabaseError" THEN ErrDatabase
    ELSE IF w = "WrapRedisError" THEN ErrRedis
    ELSE IF w = "WrapKafkaError" THEN ErrKafka
    ELSE IF w = "WrapExternalError" THEN ErrExternalService
    ELSE IF w = "WrapBadRequestError" THEN ErrBadRequest
    ELSE IF w = "WrapUnauthorizedError" THEN ErrUnauthorized
    ELSE IF w = "WrapForbiddenError" THEN ErrForbidden
    ELSE IF w = "WrapNotFoundError" THEN ErrNotFound
    ELSE IF w = "WrapInternalServerError" THEN ErrInternalServer
    ELSE IF w = "WrapBindError" THEN ErrBind
    ELSE ErrValidation

\* C11 as stated: each of the eleven category wrappers returns nil when the
\* error passed to it is nil.
OriginalC11 ==
    (ret.op \in CategoryWrappers /\ ret.arg = Nil) => err = Nil

\* C11, amended: handed a nil error, the four infrastructure wrappers
\* (database, redis, kafka, external) return nil; the other seven return a
\* new root coded error with the wrapper's code and the given message.
TheoremC11 ==
    (ret.op \in CategoryWrappers /\ ret.arg = Nil) =>
        IF ret.op \in InfraWrappers
        THEN err = Nil
        ELSE /\ err # Nil
             /\ err.kind = "codeError"
             /\ err.cause = Nil
             /\ err.code = WrapperCode(ret.op)
             /\ err.message = ret.a

\* WrapBadRequestError(nil, "get") has returned an error
WitnessC11 ==
    /\ ret.op = "WrapBadRequestError"
    /\ ret.arg = Nil
    /\ err # Nil
    /\ GetCode(err) = ErrBadRequest

\* the message an infrastructure wrapper gives its node
InfraText(w, service, operation) ==
    IF w = "WrapDatabaseError" THEN "database " \o operation \o " failed"
    ELSE IF w = "WrapRedisError" THEN "redis " \o operation \o " failed"
    ELSE IF w = "WrapKafkaError" THEN "kafka " \o operation \o " failed"
    ELSE "external service " \o service \o " " \o operation \o " failed"

\* C12: with the startup table registered, an infrastructure wrapper applied
\* to a non-nil error e and an operation gives an error r with GetCode(r) the
\* wrapper's code (100101 database, 100102 redis, 100103 kafka, 100104
\* external), that code's HTTP status 500, and r.Error() the wrapper's
\* message ("database <op> failed", ...) followed by ": " and e.Error().
TheoremC12 ==
    (ret.op \in InfraWrappers /\ ret.arg # Nil) =>
        /\ err # Nil
        /\ GetCode(err) = CASE ret.op = "WrapDatabaseError" -> 100101
                             [] ret.op = "WrapRedisError" -> 100102
                             [] ret.op = "WrapKafkaError" -> 100103
                             [] ret.op = "WrapExternalError" -> 100104
        /\ HTTPStatus(registry, GetCode(err)) = 500
        /\ Error(err) = InfraText(ret.op, ret.service, ret.a) \o ": " \o Error(ret.arg)

\* WrapDatabaseError has wrapped a collaborator's error that has a text
WitnessC12 ==
    /\ ret.op = "WrapDatabaseError"
    /\ ret.arg # Nil
    /\ ret.arg.kind = "errorString"
    /\ ret.arg.msg # ""
    /\ Error(err) = "database get failed: io"

\* a response was made, and the error it was made for
Answered == ret.op \in {"APIError", "ErrorHandler"}
AnsweredErr == IF ret.op = "APIError" THEN err ELSE ret.e
\* the error is a chain of the package's nodes, what APIError and
\* ErrorHandler's generic path are given
IsChain(e) == e.kind \notin {"HTTPError", "ValidationError"}
\* the codes of the nodes that carry one other than the reserved 0
NonZeroCodes(e) == SelectSeq(CodesOf(e), LAMBDA c : c # 0)

\* C13 as stated: every non-nil error is answered with a code other than 0; a
\* chain with no coded node gets 100500 and status 500, a chain with a coded
\* node gets that node's code.  A node carrying the reserved code 0 is taken
\* as carrying none, and "that node" as the outermost node that carries one.
OriginalC13 ==
    (Answered /\ AnsweredErr # Nil) =>
        /\ ~ret.resp.panic
        /\ ret.resp.Code # 0
        /\ IsChain(AnsweredErr) =>
              IF NonZeroCodes(AnsweredErr) = <<>>
              THEN ret.resp.Code = 100500 /\ ret.resp.httpStatus = 500
              ELSE ret.resp.Code = NonZeroCodes(AnsweredErr)[1]

\* C13, amended: every non-nil error is answered with a code other than 0.  A
\* chain whose outermost coded node carries a code other than 0 gets that
\* code; a chain with no coded node, or whose outermost coded node carries 0
\* whatever deeper nodes carry, gets 100500 and status 500, through APIError
\* and through ErrorHandler alike.
TheoremC13 ==
    (Answered /\ AnsweredErr # Nil) =>
        /\ ~ret.resp.panic
        /\ ret.resp.Code # 0
        /\ IsChain(AnsweredErr) =>
              IF CodesOf(AnsweredErr) # <<>> /\ CodesOf(AnsweredErr)[1] # 0
              THEN ret.resp.Code = CodesOf(AnsweredErr)[1]
              ELSE ret.resp.Code = 100500 /\ ret.resp.httpStatus = 500

\* ErrorHandler has answered a chain of two nodes, none of them coded
WitnessC13 ==
    /\ ret.op = "ErrorHandler"
    /\ ret.e = err
    /\ Depth(err) = 2
    /\ CodesOf(err) = <<>>
    /\ ret.resp.Code = ErrInternalServer
    /\ ret.resp.httpStatus = 500

-----------------------------------------------------------------------------
(* Claims about the classification of codes, under SpecClassify *)

\* the HTTP status the registry gives for a code
RegistryStatus(code) ==
    IF code \in DOMAIN registry THEN registry[code].httpStatus ELSE 500

\* C14 as stated: IsClientError(code) holds exactly when the registry's status
\* for the code is in [400,500), IsServerError(code) exactly when it is >= 500,
\* never both; IsServerError(500), IsClientError(404) and not IsClientError(500).
OriginalC14 ==
    /\ probe.op = "IsClientError" =>
          /\ probe.val = (RegistryStatus(probe.code) >= 400 /\ RegistryStatus(probe.code) < 500)
          /\ ~(probe.val /\ IsServerError(registry, probe.code))
          /\ probe.code = 404 => probe.val = TRUE
          /\ probe.code = 500 => probe.val = FALSE
    /\ probe.op = "IsServerError" =>
          /\ probe.val = (RegistryStatus(probe.code) >= 500)
          /\ ~(probe.val /\ IsClientError(registry, probe.code))
          /\ probe.code = 500 => probe.val = TRUE

\* C14, amended: IsClientError(code) holds exactly when the registry's status
\* for the code is in [400,500), IsServerError(code) exactly when it is >= 500,
\* never both.  The arguments are codes, not statuses: IsServerError(100500),
\* IsClientError(100404) and not IsClientError(100500); a code the registry
\* does not hold, as 404 and 500 are after init(), is a server error and no
\* client error.
TheoremC14 ==
    /\ probe.op = "IsClientError" =>
          /\ probe.val = (RegistryStatus(probe.code) >= 400 /\ RegistryStatus(probe.code) < 500)
          /\ ~(probe.val /\ IsServerError(registry, probe.code))
          /\ probe.code = ErrNotFound => probe.val = TRUE
          /\ probe.code = ErrInternalServer => probe.val = FALSE
          /\ probe.code \notin DOMAIN registry => probe.val = FALSE
    /\ probe.op = "IsServerError" =>
          /\ probe.val = (RegistryStatus(probe.code) >= 500)
          /\ ~(probe.val /\ IsClientError(registry, probe.code))
          /\ probe.code = ErrInternalServer => probe.val = TRUE
          /\ probe.code \notin DOMAIN registry => probe.val = TRUE
    /\ {404, 500} \cap DOMAIN StartupRegistry = {}

\* IsClientError(404) has answered false on the registry init() left
WitnessC14 ==
    /\ probe.op = "IsClientError"
    /\ probe.code = 404
    /\ registry = StartupRegistry
    /\ probe.val = FALSE

\* C15: errorType(code) is Internal exactly when the registry's status for
\* the code is >= 500, which includes every unregistered code and code 0, and
\* Business otherwise, codes registered below 400 included; so errorType is
\* Internal exactly when IsServerError(code).
TheoremC15 ==
    probe.op = "classifyErrorType" =>
        /\ probe.val \in {InternalError, BusinessError}
        /\ (probe.val = InternalError) = (RegistryStatus(probe.code) >= 500)
        /\ probe.code \notin DOMAIN registry => probe.val = InternalError
        /\ probe.code = 0 => probe.val = InternalError
        /\ RegistryStatus(probe.code) < 400 => probe.val = BusinessError
        /\ (probe.val = InternalError) = IsServerError(registry, probe.code)

\* the type of a code registered with a status below 400 has been asked for
WitnessC15 ==
    /\ probe.op = "classifyErrorType"
    /\ probe.code \in DOMAIN registry
    /\ registry[probe.code].httpStatus < 400
    /\ probe.val = BusinessError

-----------------------------------------------------------------------------
(* Claims about ErrorInfo, the coder and the response, under SpecBoundary *)

\* C16 as stated: for a non-nil error, Details is empty when Type is
\* Business and non-empty when Type is Internal, Code is GetCode(err) and
\* Message is err.Error(); for nil the info is the zero ErrorInfo.
OriginalC16 ==
    ret.op = "NewErrorInfo" =>
        IF err = Nil
        THEN ret.info = zeroErrorInfo
        ELSE /\ ret.info.Type = BusinessError => ret.info.Details = ""
             /\ ret.info.Type = InternalError => ret.info.Details # ""
             /\ ret.info.Code = GetCode(err)
             /\ ret.info.Message = Error(err)

\* C16, amended: for a non-nil error, Details is empty when Type is Business;
\* when Type is Internal it is the %+v text of the error, which is empty only
\* for an error of another package whose text is empty; Code is GetCode(err)
\* and Message is err.Error(); for nil the info is the zero ErrorInfo.
TheoremC16 ==
    ret.op = "NewErrorInfo" =>
        IF err = Nil
        THEN ret.info = zeroErrorInfo
        ELSE /\ ret.info.Type \in {BusinessError, InternalError}
             /\ ret.info.Type = BusinessError => ret.info.Details = ""
             /\ ret.info.Type = InternalError =>
                   /\ ret.info.Details = FormatPlusV(err)
                   /\ ret.info.Details = "" => (err.kind = "errorString" /\ Error(err) = "")
             /\ ret.info.Code = GetCode(err)
             /\ ret.info.Message = Error(err)

\* the info of a business error of two nodes has been made
WitnessC16 ==
    /\ ret.op = "NewErrorInfo"
    /\ Depth(err) = 2
    /\ ret.info.Type = BusinessError
    /\ ret.info.Code = ErrNotFound
    /\ ret.info.Details = ""
    /\ FormatPlusV(err) # ""

\* t occurs in s as a contiguous substring
Contains(s, t) ==
    \E i \in 0..(Len(s) - Len(t)) : SubSeq(s, i + 1, i + Len(t)) = t

\* the outermost node is a coded node and so is its immediate cause
CodedOverCoded(e) ==
    /\ e.kind = "codeError"
    /\ e.cause # Nil
    /\ e.cause.kind = "codeError"

\* C17 as stated: for every error classified Internal, whatever the kinds and
\* the depth of its nodes, Details contains err.Error() as a contiguous
\* substring.
OriginalC17 ==
    (ret.op = "NewErrorInfo" /\ err # Nil /\ ret.info.Type = InternalError) =>
        Contains(ret.info.Details, Error(err))

\* C17, amended: for every error classified Internal, Details contains
\* err.Error() as a contiguous substring unless the outermost node is a coded
\* node whose immediate cause is a coded node too (the cause is then printed
\* with its "[code] " prefix, which err.Error() does not have).
TheoremC17 ==
    (ret.op = "NewErrorInfo" /\ err # Nil /\ ret.info.Type = InternalError
        /\ ~CodedOverCoded(err)) =>
            Contains(ret.info.Details, Error(err))

\* the info of an internal error has been made: a coded node over a wrap
WitnessC17 ==
    /\ ret.op = "NewErrorInfo"
    /\ ret.info.Type = InternalError
    /\ err.kind = "codeError"
    /\ err.cause # Nil
    /\ err.cause.kind \in {"fundamental", "withMessage"}
    /\ Error(err) # ""
    /\ ret.info.Details # Error(err)
    /\ Contains(ret.info.Details, Error(err))

-----------------------------------------------------------------------------
(* Claims about the category of codes, under SpecClassify *)

\* the category C18 gives a code
StatedCategory(code) ==
    IF code = 100101 THEN "database"
    ELSE IF code = 100102 THEN "redis"
    ELSE IF code = 100103 THEN "kafka"
    ELSE IF code = 100104 THEN "external"
    ELSE IF code \in {ErrValidation, ErrBind, ErrBadRequest} THEN "validation"
    ELSE IF (code \in TableCodes /\ code \in 100201..100299) \/ code \in {100401, 100403}
         THEN IF StartupRegistry[code].httpStatus = 401 THEN "auth" ELSE "permission"
    ELSE IF code \in 100301..100399 THEN "system"
    ELSE "business"

\* the category the amended C18 gives a code
AmendedCategory(code) ==
    IF code = 100101 THEN "database"
    ELSE IF code = 100102 THEN "redis"
    ELSE IF code = 100103 THEN "kafka"
    ELSE IF code = 100104 THEN "external"
    ELSE IF code \in {100003, 100004, 100400} THEN "validation"
    ELSE IF code \in {100005, 100401} \cup 100202..100206 THEN "auth"
    ELSE IF code \in {100403} \cup 100207..100210 THEN "permission"
    ELSE IF code \in 100300..100399 THEN "system"
    ELSE "business"

-----------------------------------------------------------------------------
(* Claims about the coder and the response of an error, under SpecBoundary *)

\* C19: ParseCoder(err) is nil for a nil error, the fixed unknownCoder (code
\* 1, status 500) for a non-nil error whose chain carries no code, and the
\* registered Coder of GetCode(err) when that code is registered; it always
\* returns.
TheoremC19 ==
    ret.op = "ParseCoder" =>
        /\ err = Nil => ret.c = Nil
        /\ (err # Nil /\ CodesOf(err) = <<>>) =>
              /\ ret.c = unknownCoder
              /\ ret.c.code = 1
              /\ ret.c.httpStatus = 500
        /\ (err # Nil /\ GetCode(err) \in DOMAIN registry) =>
              /\ ret.c = registry[GetCode(err)]
              /\ ret.c.code = GetCode(err)
        /\ ret.c = Nil \/ ret.c = unknownCoder \/ ret.c.code \in DOMAIN registry

\* the coder of a chain whose outermost code is registered has been asked for
WitnessC19 ==
    /\ ret.op = "ParseCoder"
    /\ Depth(err) = 2
    /\ GetCode(err) = ErrDatabase
    /\ ret.c = [code |-> 100101, httpStatus |-> 500, message |-> "Database error"]

\* the code APIError answers with
ResponseCode(e) == IF GetCode(e) = 0 THEN 100500 ELSE GetCode(e)

\* C20: for every error whose effective code is registered, the response of
\* APIError has the registered status and the registered message, so the
\* response is the same for all errors with that effective code, whatever
\* their messages and causes.
TheoremC20 ==
    (ret.op = "APIError" /\ err # Nil /\ ResponseCode(err) \in DOMAIN registry) =>
        /\ ~ret.resp.panic
        /\ ret.resp.Code = ResponseCode(err)
        /\ ret.resp.httpStatus = registry[ResponseCode(err)].httpStatus
        /\ ret.resp.Msg = registry[ResponseCode(err)].message

\* APIError has answered a chain whose text is not the registered message
WitnessC20 ==
    /\ ret.op = "APIError"
    /\ Depth(err) = 2
    /\ GetCode(err) = ErrNotFound
    /\ Error(err) # "Not found"
    /\ ret.resp = [panic |-> FALSE, httpStatus |-> 404, Code |-> 100404, Msg |-> "Not found"]

\* the non-empty texts of a chain: the messages of its nodes, the text of the
\* low-level error at its root
ChainTexts(e) ==
    {OwnMessage(Nodes(e)[i]) : i \in 1..Len(Nodes(e))} \ {""}

\* C21: whenever APIError answers with an HTTP status >= 500, the message of
\* the response contains no text of the error chain (node messages, text of
\* the low-level cause), for registered and unregistered codes alike.
OriginalC21 ==
    (ret.op = "APIError" /\ err # Nil /\ ret.resp.httpStatus >= 500) =>
        \A t \in ChainTexts(err) : ~Contains(ret.resp.Msg, t)


-----------------------------------------------------------------------------
(* Claims about stack snapshots and chain walks, under SpecStack *)

StackOps == {"New", "Errorf", "Wrap", "Wrapf", "WithCode", "WrapCode"}

SnapshotsC22 ==
    /\ \A i \in 1..Len(Nodes(err)) :
          "stack" \in DOMAIN Nodes(err)[i] => Len(Nodes(err)[i].stack) <= 32
    /\ (err # Nil /\ ret.op \in StackOps) =>
          /\ Len(err.stack) = IF frames < 32 THEN frames ELSE 32
          /\ \A i \in 1..Len(err.stack) : err.stack[i] = frames - i + 1
    /\ (err # Nil /\ ret.op \in {"WithMessage", "WithMessagef"}) => err.stack = <<>>
    /\ (err # Nil /\ ret.op \in WrapOps) => Unwrap(err) = ret.arg

KeptC22 ==
    err' # err => (err' = Nil \/ Unwrap(err') = Nil \/ Unwrap(err') = err)

\* C22: no snapshot holds more than 32 return addresses; New, Errorf, Wrap,
\* Wrapf, WithCode and WrapCode give the new node the snapshot of their own
\* call (its innermost frames, at most 32), WithMessage and WithMessagef give
\* it none; the wrapped cause, snapshots included, is kept as it was, and no
\* step changes a node that exists: a step either drops the chain, starts a
\* new one, or puts one node over the unchanged chain.
TheoremC22 == []SnapshotsC22 /\ [][KeptC22]_vars

WitnessC22 ==
    /\ ret.op = "Wrap"
    /\ err # Nil
    /\ ret.arg.kind = "fundamental"
    /\ Len(err.stack) = 32
    /\ Len(ret.arg.stack) = 32
    /\ err.stack # Unwrap(err).stack

\* what a rendered stack shows for the frame k of function main.f<k>
SiteText(k) ==
    "\n    main.f" \o ToString(k) \o "\n        main.go:" \o ToString(k)

\* the frames that tell one call site from another: the innermost frames of
\* the four call depths
SiteFrames == {2, 3, 33, 34}

StackNodes(e) ==
    {i \in 1..Len(Nodes(e)) :
        "stack" \in DOMAIN Nodes(e)[i] /\ Nodes(e)[i].stack # <<>>}

FramesOf(stack) == {stack[i] : i \in 1..Len(stack)}

\* C23: the %+v text of a chain shows the frames of every
\* stack-bearing node of the chain.
OriginalC23 ==
    (ret.op = "Format" /\ err # Nil) =>
        \A i \in StackNodes(err) :
            \A k \in SiteFrames \cap FramesOf(Nodes(err)[i].stack) :
                Contains(ret.val, SiteText(k))

\* C28: GetStackTrace returns the non-empty snapshot of the outermost node of
\* the chain that carries one, also below annotations made with WithMessage,
\* and returns the empty (nil) slice only when no node carries a snapshot.
OriginalC28 ==
    ret.op = "GetStackTrace" =>
        IF StackNodes(err) = {}
        THEN ret.val = <<>>
        ELSE \E i \in StackNodes(err) :
                /\ \A j \in StackNodes(err) : i <= j
                /\ ret.val = Nodes(err)[i].stack

\* C27: on every chain Error(), GetCode, IsCode and Cause end after at most
\* one visit per node; Cause returns the root, the last node of the chain,
\* which has no cause; a node without cause is its own root and Cause(nil)
\* is nil.
TheoremC27 ==
    /\ (ret.op = "Error" /\ err # Nil) => ErrorCalls(err) <= Depth(err)
    /\ ret.op = "GetCode" => GetCodeVisits(err) <= Depth(err)
    /\ ret.op = "IsCode" => IsCodeVisits(err, ret.code) <= Depth(err)
    /\ ret.op = "Cause" =>
          /\ ret.visited <= Depth(err)
          /\ err = Nil => ret.val = Nil
          /\ err # Nil =>
                /\ ret.val = Nodes(err)[Len(Nodes(err))]
                /\ Unwrap(ret.val) = Nil
          /\ (err # Nil /\ Unwrap(err) = Nil) => ret.val = err

WitnessC27 ==
    /\ ret.op = "Cause"
    /\ Depth(err) = 3
    /\ ret.visited = 3
    /\ ret.val.kind = "errorString"
    /\ ret.val # Unwrap(err)


-----------------------------------------------------------------------------
(* Claims about joined errors, under SpecJoin *)

\* C24: GetCode and IsCode agree on every error value, joined errors
\* included: a non-zero GetCode(e) is a code IsCode finds in e, and when
\* IsCode finds a non-zero code in e, GetCode(e) is not zero.
OriginalC24 ==
    /\ GetCode(err) # 0 => IsCode(err, GetCode(err))
    /\ \A c \in (NodeCodes \cup JoinCodes) \ {0} :
          IsCode(err, c) => GetCode(err) # 0


-----------------------------------------------------------------------------
(* Claims about a response made while the registry is written, under SpecRace *)

\* the (status, message) pairs of the entries a writer can ever store
WrittenPairs ==
    {<<s, "app">> : s \in AppStatuses} \cup {<<a.httpStatus, a.message>> : a \in RegArgs}

\* C25: the status and the message of a response of APIError are those of
\* one entry that the registry held for the code of the error, or both are
\* the defaults for an unregistered code (500 and the text of the error),
\* also when the registry is written while APIError runs.
OriginalC25 ==
    ret.op = "APIError" =>
        \/ <<ret.resp.httpStatus, ret.resp.Msg>> \in WrittenPairs
        \/ <<ret.resp.httpStatus, ret.resp.Msg>> = <<500, Error(err)>>


-----------------------------------------------------------------------------
(* Claims about concurrent registrations, under Spec *)

InLock == {"check", "store", "storeMsg", "unlock", "panicUnlock"}

\* the steps a worker takes by itself once its call has begun
Proceed(p) ==
    \/ Check(p) \/ Store(p) \/ StoreMsg(p) \/ Unlock(p) \/ Recover(p)
    \/ LoadMsg(p) \/ RUnlock(p)

C26State ==
    /\ Cardinality(registryMu.writer) <= 1
    /\ registryMu.writer = {p \in Procs : pc[p] \in InLock}
    /\ registryMu.writer # {} => registryMu.readers = {}
    /\ \A p \in Procs : call[p].op = "Register" =>
          /\ pc[p] \in {"store", "storeMsg"} =>
                \A q \in Procs \ {p} : pc[q] \notin InLock
          /\ pc[p] = "store" => ~Exists(registry, call[p].code)
          /\ pc[p] = "panicUnlock" => Exists(registry, call[p].code)
    /\ \A p \in Procs : pc[p] # "idle" => ENABLED Proceed(p)
    /\ (\A p \in Procs : pc[p] \in {"idle", "panicked"}) => LockFree(registryMu)

C26Step ==
    \A p \in Procs :
        (call[p].op = "Register" /\ pc[p] = "unlock" /\ pc'[p] = "idle")
            => /\ ~Registered(call[p].code)
               /\ lastWritten'[call[p].code] = Args(p)

\* C26: the check and the insertion of Register run under one hold of the
\* write lock: no other worker is inside the lock between them, the code is
\* still absent when it is stored and present when a Register aborts, so of
\* the Registers of one unregistered code only the first completes and it
\* completes once; the lock is held by the workers inside the lock only, a
\* worker that has aborted holds nothing, every worker that has begun a call
\* can take its next step, and the lock is free when no call is in progress.
TheoremC26 == []C26State /\ [][C26Step]_vars

\* Two workers have called Register with one code: one is back with the code
\* registered, the other has aborted and released the lock.
WitnessC26 ==
    \E p \in Procs :
        /\ call[p].op = "Register"
        /\ pc[p] = "panicked"
        /\ call[p].code # 0
        /\ Registered(call[p].code)
        /\ LockFree(registryMu)


-----------------------------------------------------------------------------
(* Claims about component health, under SpecHealth *)

Reported(checks) == {checks[i].Status : i \in 1..Len(checks)}

\* C29: OverallStatus is unhealthy when some registered checker reports
\* unhealthy, degraded when none reports unhealthy and some reports degraded,
\* healthy otherwise, in whatever order the checkers were registered.
OriginalC29 ==
    overall.op = "OverallStatus" =>
        overall.val =
            IF "unhealthy" \in Reported(overall.checks) THEN "unhealthy"
            ELSE IF "degraded" \in Reported(overall.checks) THEN "degraded"
            ELSE "healthy"


-----------------------------------------------------------------------------
(* Claims about the configuration store, under SpecConfig *)

\* C30: an updater inside Update can always take its next step, whatever the
\* subscribers have or have not received; and once every Update has
\* returned, a subscriber under "*" that subscribed before the updates and
\* has emptied its channel has received, last, the value Current() gives.
OriginalC30 ==
    /\ \A u \in Procs :
          upd[u].pc = "notify" => ENABLED (UpdateSend(u) \/ UpdateReturn(u))
    /\ ((\A u \in Procs : upd[u].pc = "idle") /\ v # Initial) =>
          \A k \in 1..Len(subs["*"]) :
              (got["*"][k].early /\ subs["*"][k] = <<>>) => got["*"][k].last = Current

====
